---- MODULE Spec2Model ----
(***************************************************************************)
(* A model of the eastmoney_scraper library: the paginated fetchers, the   *)
(* scraper merge pipeline and the background Monitor loop.                 *)
(***************************************************************************)
EXTENDS Integers, Sequences, FiniteSets, TLC

(***************************************************************************)
(* Bounds of the model and constants of the program                        *)
(***************************************************************************)
\* page_size_for_total_count of fetch_all_quotes
PageSize == 100
\* the largest number of pages the modelled server holds
MaxPages == 3
\* the longest diff array of one page response
MaxDiff == 1
\* the cap on the workers of a page pool
MaxPoolWorkers == 10
\* the cap on the workers of the pool of fetch_all_constituents
ConstituentWorkers == 5

\* thread.join(timeout=5): the seconds stop() waits for the worker
JoinTimeout == 5
\* min(self.interval, 30): the cap of the sleep after an exception in the loop
ErrorSleepCap == 30
\* start(interval=10): the default polling interval in seconds
DefaultInterval == 10
\* timeout=10: the seconds one page request may take
RequestTimeout == 10
\* the most worker threads of one Monitor alive at the same time
MaxWorkers == 2

\* the most records of the quote list a scrape starts from
MaxRows == 3
\* the most records one period's capital-flow list holds
MaxAux == 2

\* the most sectors of the list whose constituents are looked up
MaxSectors == 2

\* sector codes (the identity key of a sector record)
Codes == {"A", "B", "C"}
\* the code of the records the page server of the fetch-all model returns
PageCodes == {"A"}

NONE == "none"

BoundedSeq(S, n) == UNION {[1..k -> S] : k \in 0..n}

Range(s) == {s[i] : i \in 1..Len(s)}

Pages == 1..MaxPages

(***************************************************************************)
(* What the server answers to one page request.                            *)
(*   fail    the request raised (network error, timeout, non-2xx status),  *)
(*           the JSONP wrapper was not found, or the JSON did not parse:   *)
(*           the page function returns None                                *)
(*   null    JSON parsed, "data" is null or missing                        *)
(*   nodiff  JSON parsed, "data" is an object without "diff"               *)
(*   ok      JSON parsed, "data" holds the "diff" array                    *)
(***************************************************************************)
Responses ==
    {[kind |-> k, diff |-> <<>>] : k \in {"fail", "null", "nodiff"}}
        \cup {[kind |-> "ok", diff |-> d] : d \in BoundedSeq(PageCodes, MaxDiff)}

\* the spec's example: total = 250
ExampleTotal == 2 * PageSize + PageSize \div 2

\* the totals a first page may report: none, one page, a page boundary, one
\* record more than a page, the spec's 250, and as many pages as the server holds
Totals == {0, 1, PageSize, PageSize + 1, ExampleTotal, MaxPages * PageSize}

\* the fetch-all operations modelled
\*   quotes  SectorDataFetcher.fetch_all_quotes
\*   legacy  DataFetcher.fetch_all_pages
\* (StockCapitalFlowFetcher.fetch_all_capital_flow, "stock_flow", has a
\* specification of its own)
Fetchers == {"quotes", "legacy"}

VARIABLES
    fetcher,      \* which fetch-all operation is called
    max_pages,    \* the max_pages argument (legacy fetcher, stock_flow)
    resp,         \* page number -> the server's response to that page
    total,        \* data.total of the responses
    fpc,          \* position of the fetch-all call
    submitted,    \* page numbers submitted to the pool, request not yet issued
    inflight,     \* page numbers whose request is issued and not yet answered
    finished,     \* page numbers answered, result not yet consumed by the caller
    requests,     \* page number -> how many requests were issued for it
    all_data,     \* the result list being built
    next_future,  \* legacy fetcher: index of the future whose result is awaited
    raised        \* an exception left the fetch-all call

fvars == <<fetcher, max_pages, resp, total, fpc, submitted, inflight, finished,
           requests, all_data, next_future, raised>>

VARIABLES
    monitor,      \* which Monitor class: its scraper call and its emptiness test
    is_running,   \* self.is_running
    thread,       \* self.thread: a worker id, 0 for None
    interval,     \* self.interval, in time units
    callback,     \* whether self.callback is set
    last_data,    \* self.last_data
    wk,           \* worker id -> the state of that thread in _run
    ctl,          \* the thread that calls start() and stop()
    lastPoll,     \* what the last finished poll did
    lastGood      \* the result of the last poll that fetched data

mvars == <<monitor, is_running, thread, interval, callback, last_data, wk, ctl,
           lastPoll, lastGood>>

VARIABLES
    scraper,        \* which scraper class runs scrape_all_data
    spc,            \* position of the scrape_all_data call
    df_merged,      \* df_merged (df_quotes for the sector scraper)
    columns,        \* the periods whose columns df_merged holds
    last_merge,     \* the operands and the result of the last pd.merge
    scrape_result,  \* the DataFrame scrape_all_data returned
    calls           \* the fetches the call has issued and what they returned

svars == <<scraper, spc, df_merged, columns, last_merge, scrape_result, calls>>

VARIABLES
    facade,               \* which mapping function of the facade is called
    save_to_file,         \* its save_to_file argument
    mpc,                  \* position of the mapping call
    sectors_to_process,   \* the sector codes whose constituents are looked up
    results,              \* lookup index -> the stock codes the lookup returns
    pending,              \* the lookups whose future is not yet consumed
    stock_to_sector_map,  \* the dictionary being built
    facade_result,        \* the dictionary the facade function returns
    mapping_file          \* the dictionary in the JSON file, <<>> for no file

pvars == <<facade, save_to_file, mpc, sectors_to_process, results, pending,
           stock_to_sector_map, facade_result, mapping_file>>

VARIABLES
    saver,         \* the class whose save operation is called
    clock,         \* the wall clock, in ticks of 1/TicksPerSecond second
    files,         \* the output directory: file name -> what the file holds
    save_call,     \* the last save: the table, the failed write, the result
    last_success   \* the table of the last save that returned a path

dvars == <<saver, clock, files, save_call, last_success>>

VARIABLES
    entry,          \* the facade function or constructor that is called
    args,           \* the strings it is called with, one for each parameter
    vpc,            \* position of the call
    used,           \* the enum members the scraper is built with
    outcome,        \* how the call ended
    net_requests    \* the network requests the call has issued

cvars == <<entry, args, vpc, used, outcome, net_requests>>

VARIABLES
    parser,      \* the Parser whose parse method is called
    raw_list,    \* the list of raw records handed to it
    table,       \* the Table it returns: its rows and its column names
    rpc          \* position of the parse call

rvars == <<parser, raw_list, table, rpc>>

VARIABLES
    stock_codes,     \* the stock_codes argument of scrape_multiple_stocks
    kline_resp,      \* stock code -> what fetch_kline_data returns for it
    futures,         \* indices of stock_codes whose future is not yet completed
    raw_data_dict,   \* results of fetch_multiple_stocks_kline, in insertion order
    secids,          \* the secid parameters the requests were sent with
    parsed_results,  \* the dictionary scrape_multiple_stocks returns
    kpc              \* position of the scrape_multiple_stocks call

kvars == <<stock_codes, kline_resp, futures, raw_data_dict, secids,
           parsed_results, kpc>>

VARIABLES
    sched,             \* the scraper whose start_scheduled_scraping runs
    interval_seconds,  \* its interval_seconds argument
    sched_running,     \* self.is_running of that scraper
    lpc,               \* position of the scheduled loop
    remaining,         \* seconds of the current wait still to be slept
    stop_at,           \* the position the loop was at when stop() cleared the flag
    since_stop         \* seconds the loop has slept since the flag was cleared

lvars == <<sched, interval_seconds, sched_running, lpc, remaining, stop_at,
           since_stop>>

VARIABLES
    cache_file,   \* stock_list_cache.csv: whether it exists, its mtime, its text
    now,          \* the wall clock, in hours
    stock_call    \* the last get_all_stocks call: its arguments and what it did

hvars == <<cache_file, now, stock_call>>

\* the variable groups declared after the batch K-line call
uvars == <<lvars, hvars>>

\* the variable groups declared after the Parser call
tvars == <<kvars, uvars>>

\* the variable groups declared after the string parameters
wvars == <<rvars, tvars>>

\* the variable groups declared after the save operations
zvars == <<cvars, wvars>>

\* the variable groups declared after the mapping call
yvars == <<dvars, zvars>>

\* the variable groups declared after the scrape
xvars == <<pvars, yvars>>

vars == <<fvars, mvars, svars, xvars>>

\* a record of the result list: the raw record and the page it came from
Rec(p, c) == [page |-> p, code |-> c]

\* the records of one page's diff array
DiffRecords(p) == [i \in 1..Len(resp[p].diff) |-> Rec(p, resp[p].diff[i])]

\* mutant: the page count rounded down
TotalPagesFloor(t) == t \div PageSize

\* total_pages = (total_records + page_size - 1) // page_size
TotalPages(t) == (t + PageSize - 1) \div PageSize

\* fetch_all_capital_flow:
\* total_pages = min(max_pages, (total_records + page_size - 1) // page_size)
FlowTotalPages(m, t) == IF m < TotalPages(t) THEN m ELSE TotalPages(t)

\* the pages submitted to the pool: range(2, total_pages + 1)
RemainingPages(t) == 2..TotalPages(t)

\* mutant: the first response is used whatever it holds
FirstPageTaken(r) == r.kind \in {"fail", "null", "nodiff", "ok"}

\* "if not first_page_response or 'data' not in ... or not ...['data']"
FirstPageUsable(r) == r.kind \in {"nodiff", "ok"}

\* "if 'diff' in data and data['diff']: all_raw_quotes_data.extend(data['diff'])"
ExtendWith(data, p) ==
    IF resp[p].kind = "ok" THEN data \o DiffRecords(p) ELSE data

(***************************************************************************)
(* The Monitor: time is counted in units of the join timeout (5 s)         *)
(***************************************************************************)
Quantum == JoinTimeout

JoinTicks == JoinTimeout \div Quantum

\* the intervals start() is called with: 5 s and the default 10 s
Intervals == {1, DefaultInterval \div Quantum}

\* 5 s, and 35 s, the first interval above the cap of the error sleep
LongIntervals == {1, ErrorSleepCap \div Quantum + 1}

\* how long one call of the scraper takes: up to one request timeout
FetchTicks == 0..(RequestTimeout \div Quantum)

Workers == 1..MaxWorkers

\* the Monitor classes
\*   sector  SectorMonitor      df = self.scraper.scrape_all_data()
\*           (the loops of ConceptSectorMonitor and StockCapitalFlowMonitor
\*           test their DataFrame in the same way)
\*   kline   StockKlineMonitor  data_dict = self.scraper.scrape_multiple_stocks(...)
Monitors == {"sector", "kline"}

\* the results of a poll that fetched data
Frames == {"df1", "df2"}

\* what one call of the scraper ends with
\*   ok      data was fetched
\*   nodata  the fetch failed or returned no data: an empty DataFrame, or for
\*           scrape_multiple_stocks an empty DataFrame for each stock code
\*   raise   an exception left the call
Outcomes == {"ok", "nodata", "raise"}

Alive == {"check", "fetch", "sleep"}

\* a worker thread: its position in _run, the time left of its scraper call
\* or sleep, whether stop() was called while it ran, and the time then left
\* of the interval + 5 s that follow the call
NoWorker == [pc |-> "none", t |-> 0, stopped |-> FALSE, left |-> 0]

NoPoll == [outcome |-> "none", updated |-> FALSE, called |-> FALSE,
           cb_raised |-> FALSE, after_stop |-> FALSE]

\* the thread that calls start() and stop(): whether it is inside the join
\* of stop(), for how long, and what its last call was
\*   start, stop            the call went past its first test
\*   start_noop, stop_noop  the call returned at its first test
CtlIdle == [pc |-> "idle", waited |-> 0, call |-> "none"]

MonitorAtRest ==
    /\ is_running = FALSE
    /\ thread = 0
    /\ interval = DefaultInterval \div Quantum
    /\ callback = FALSE
    /\ last_data = NONE
    /\ wk = [w \in Workers |-> NoWorker]
    /\ ctl = CtlIdle
    /\ lastPoll = NoPoll
    /\ lastGood = NONE

(***************************************************************************)
(* scrape_all_data: the quote list, the capital-flow lists and the tables  *)
(***************************************************************************)
\* the scraper classes
\*   concept  ConceptSectorScraper.scrape_all_data: quotes merged with the
\*            capital flow of three periods
\*   sector   SectorScraper.scrape_all_data: quotes only
Scrapers == {"concept", "sector"}

\* the periods in the order of the merges
PeriodOrder == <<"today", "5day", "10day">>

Periods == Range(PeriodOrder)

\* the lists a fetch-all call returns, as the sector codes (f12) of their
\* records: the pages' diff arrays one after the other
QuoteLists == BoundedSeq(Codes, MaxRows)

CodeOrder == <<"A", "B", "C">>

CodeRank(c) == CHOOSE i \in 1..Len(CodeOrder) : CodeOrder[i] = c

\* the capital-flow lists, their records in the order of the codes; the
\* empty list is also what a failed fetch returns
FlowLists ==
    {s \in BoundedSeq(Codes, MaxAux) :
        \A i, j \in 1..Len(s) : i < j => CodeRank(s[i]) <= CodeRank(s[j])}

\* f3 of a sector's record, the column the result is sorted by:
\* B leads, A and C tie
Pct(c) == IF c = "B" THEN 2 ELSE 1

\* stock codes (f12 of a constituent record)
Stocks == {"s1", "s2"}

\* what _fetch_and_parse_constituents returns for one sector: the sorted
\* list of its distinct stock codes, empty when the lookup failed or the
\* sector has no constituents
StockLists == {<<>>, <<"s1">>, <<"s2">>, <<"s1", "s2">>}

\* the facade functions that return a mapping
\*   sector_mapping  get_stock_to_sector_mapping
\*   concept_map     get_stock_to_concept_map
Facades == {"sector_mapping", "concept_map"}

\* the facade function has not returned yet
NotReturned == [value |-> "pending", d |-> <<>>]

\* the classes with a save operation
\*   sector      SectorScraper.save_data
\*   concept     ConceptSectorScraper.save_data
\*   stock_flow  StockCapitalFlowScraper.save_data
\*   stock_list  StockListScraper.save_stock_list
Savers == {"sector", "concept", "stock_flow", "stock_list"}

\* the ticks of the clock in one second
TicksPerSecond == 2

\* the last tick of the clock
MaxClock == 3

\* strftime('%Y%m%d_%H%M%S'): the time of the call cut to whole seconds
Timestamp(t) == t \div TicksPerSecond

\* <prefix>_<timestamp>.csv and <prefix>_latest.csv, the prefix being the
\* default prefix of the class
Timestamped(t) == <<"timestamped", Timestamp(t)>>
Latest == <<"latest", 0>>
FileNames == {Timestamped(t) : t \in 0..MaxClock} \cup {Latest}

\* the tables handed to a save operation; <<>> is the empty DataFrame
SaveTables == {<<>>, <<"r1">>, <<"r2">>}

NoFile == [exists |-> FALSE, table |-> <<>>]
FileOf(df) == [exists |-> TRUE, table |-> df]

\* what a save operation gives back to its caller
NoPath == [value |-> "none", name |-> <<>>]
EmptyPath == [value |-> "empty", name |-> <<>>]
PathOf(name) == [value |-> "path", name |-> name]
Raised == [value |-> "raised", name |-> <<>>]

NoSave == [df |-> <<>>, failed |-> FALSE, called |-> FALSE, result |-> NoPath,
           caller_raised |-> FALSE]

\* the Table of a call that has not returned, and pd.DataFrame()
NoTable == [rows |-> <<>>, columns |-> {}]

ParseAtRest ==
    /\ parser = "sector"
    /\ raw_list = <<>>
    /\ table = NoTable
    /\ rpc = "start"

\* no scrape_multiple_stocks call is modelled
KlineAtRest ==
    /\ stock_codes = <<>>
    /\ kline_resp = <<>>
    /\ futures = {}
    /\ raw_data_dict = <<>>
    /\ secids = {}
    /\ parsed_results = <<>>
    /\ kpc = "start"

\* no scheduled loop is modelled
SchedAtRest ==
    /\ sched = "sector"
    /\ interval_seconds = 1
    /\ sched_running = FALSE
    /\ lpc = "idle"
    /\ remaining = 0
    /\ stop_at = "none"
    /\ since_stop = 0

\* no cache file
NoCache == [exists |-> FALSE, mtime |-> 0, text |-> <<>>, readable |-> FALSE]

\* get_all_stocks has not been called
NoStockCall ==
    [called |-> FALSE, market_arg |-> "all", market |-> "ALL",
     use_cache |-> FALSE, at |-> 0, before |-> NoCache, fetches |-> 0,
     fetched |-> "none", df |-> <<>>, from_cache |-> FALSE,
     result |-> <<>>, raised |-> FALSE]

\* no get_all_stocks call is modelled
CacheAtRest ==
    /\ cache_file = NoCache
    /\ now = 0
    /\ stock_call = NoStockCall

\* the string parameters of the entry points
Params == {"flow_period", "kline_period", "adjust_type", "sector_type",
           "market"}

Unset == [p \in Params |-> "unset"]

ValidateAtRest ==
    /\ entry = "get_sectors"
    /\ args = Unset
    /\ vpc = "start"
    /\ used = Unset
    /\ outcome = "pending"
    /\ net_requests = 0

SaveAtRest ==
    /\ saver = "sector"
    /\ clock = 0
    /\ files = [n \in FileNames |-> NoFile]
    /\ save_call = NoSave
    /\ last_success = NoFile

MapAtRest ==
    /\ facade = "sector_mapping"
    /\ save_to_file = FALSE
    /\ mpc = "start"
    /\ sectors_to_process = <<>>
    /\ results = <<>>
    /\ pending = {}
    /\ stock_to_sector_map = <<>>
    /\ facade_result = NotReturned
    /\ mapping_file = <<>>

NoMerge == [period |-> "none", left |-> <<>>, right |-> <<>>, out |-> <<>>]

\* quotes: how often the quote fetch was called; rows: the rows of df_quotes;
\* flow: for each period whether fetch_capital_flow was submitted, and
\* whether its list was empty or held data
NoCalls == [quotes |-> 0, rows |-> 0,
            flow |-> [p \in Periods |-> "none"]]

ScrapeAtRest ==
    /\ calls = NoCalls
    /\ scraper = "concept"
    /\ spc = "start"
    /\ df_merged = <<>>
    /\ columns = {}
    /\ last_merge = NoMerge
    /\ scrape_result = <<>>

\* fetch_all_quotes takes no max_pages; fetch_all_pages never reads total
InitFetch ==
    /\ MapAtRest
    /\ SaveAtRest
    /\ ValidateAtRest
    /\ ParseAtRest
    /\ KlineAtRest
    /\ SchedAtRest
    /\ CacheAtRest
    /\ MonitorAtRest
    /\ ScrapeAtRest
    /\ fetcher \in Fetchers
    /\ max_pages \in (IF fetcher = "quotes" THEN {0} ELSE 1..MaxPages)
    /\ resp \in [Pages -> Responses]
    /\ total \in (IF fetcher = "quotes" THEN Totals ELSE {0, ExampleTotal})
    /\ fpc = "start"
    /\ submitted = {}
    /\ inflight = {}
    /\ finished = {}
    /\ requests = [p \in Pages |-> 0]
    /\ all_data = <<>>
    /\ next_future = 1
    /\ raised = FALSE
    /\ monitor = "sector"

\* fetch_all_quotes up to the creation of the pool: the first page request and
\* the decisions taken on its response
FetchFirstPage ==
    /\ fetcher = "quotes"
    /\ fpc = "start"
    /\ requests' = [requests EXCEPT ![1] = @ + 1]
    /\ IF ~FirstPageUsable(resp[1])
       THEN /\ fpc' = "done"
            /\ UNCHANGED <<all_data, submitted>>
       ELSE /\ all_data' = ExtendWith(all_data, 1)
            /\ IF total = 0 \/ TotalPages(total) <= 1
               THEN /\ fpc' = "done"
                    /\ UNCHANGED submitted
               ELSE /\ fpc' = "collect"
                    /\ submitted' = RemainingPages(total)
    /\ UNCHANGED <<fetcher, max_pages, resp, total, inflight, finished, next_future, raised>>
    /\ UNCHANGED mvars
    /\ UNCHANGED svars
    /\ UNCHANGED xvars

\* ThreadPoolExecutor(max_workers=...): min(10, total_pages - 1) for
\* fetch_all_quotes, 10 for fetch_all_pages
PoolWorkers ==
    IF fetcher = "quotes"
    THEN (IF TotalPages(total) - 1 < MaxPoolWorkers THEN TotalPages(total) - 1
          ELSE MaxPoolWorkers)
    ELSE IF fetcher = "stock_flow"
    THEN (IF FlowTotalPages(max_pages, total) - 1 < MaxPoolWorkers
          THEN FlowTotalPages(max_pages, total) - 1
          ELSE MaxPoolWorkers)
    ELSE IF fetcher = "constituents"
    THEN (IF TotalPages(total) - 1 < ConstituentWorkers
          THEN TotalPages(total) - 1
          ELSE ConstituentWorkers)
    ELSE MaxPoolWorkers

\* a pool worker starts fetch_quotes_page / fetch_data for a submitted page
IssueRequest(p) ==
    /\ fpc \in {"collect", "lcollect", "unwind"}
    /\ p \in submitted
    /\ Cardinality(inflight) < PoolWorkers
    /\ submitted' = submitted \ {p}
    /\ inflight' = inflight \cup {p}
    /\ requests' = [requests EXCEPT ![p] = @ + 1]
    /\ UNCHANGED <<fetcher, max_pages, resp, total, fpc, finished, all_data,
                   next_future, raised>>
    /\ UNCHANGED mvars
    /\ UNCHANGED svars
    /\ UNCHANGED xvars

\* mutant: a failed page request is submitted again
CompleteRequestRetry(p) ==
    /\ p \in inflight
    /\ inflight' = inflight \ {p}
    /\ IF resp[p].kind = "fail"
       THEN submitted' = submitted \cup {p} /\ UNCHANGED finished
       ELSE finished' = finished \cup {p} /\ UNCHANGED submitted
    /\ UNCHANGED <<fetcher, max_pages, resp, total, fpc, requests,
                   all_data, next_future, raised>>
    /\ UNCHANGED mvars
    /\ UNCHANGED svars
    /\ UNCHANGED xvars

\* the page function returns (a dictionary or None); nothing is retried
CompleteRequest(p) ==
    /\ p \in inflight
    /\ inflight' = inflight \ {p}
    /\ finished' = finished \cup {p}
    /\ UNCHANGED <<fetcher, max_pages, resp, total, fpc, submitted, requests,
                   all_data, next_future, raised>>
    /\ UNCHANGED mvars
    /\ UNCHANGED svars
    /\ UNCHANGED xvars

\* one turn of "for future in as_completed(futures_map)": any finished page
ConsumeCompleted(p) ==
    /\ fpc = "collect"
    /\ p \in finished
    /\ finished' = finished \ {p}
    /\ all_data' = ExtendWith(all_data, p)
    /\ UNCHANGED <<fetcher, max_pages, resp, total, fpc, submitted, inflight,
                   requests, next_future, raised>>
    /\ UNCHANGED mvars
    /\ UNCHANGED svars
    /\ UNCHANGED xvars

\* the pool is shut down and fetch_all_quotes returns all_raw_quotes_data
FetchReturn ==
    /\ fpc = "collect"
    /\ submitted = {} /\ inflight = {} /\ finished = {}
    /\ fpc' = "done"
    /\ UNCHANGED <<fetcher, max_pages, resp, total, submitted, inflight, finished,
                   requests, all_data, next_future, raised>>
    /\ UNCHANGED mvars
    /\ UNCHANGED svars
    /\ UNCHANGED xvars

\* fetch_all_pages up to the end of the submit loop:
\* futures = [executor.submit(self.fetch_data, page) for page in range(1, max_pages + 1)]
LegacySubmit ==
    /\ fetcher = "legacy"
    /\ fpc = "start"
    /\ submitted' = 1..max_pages
    /\ fpc' = "lcollect"
    /\ UNCHANGED <<fetcher, max_pages, resp, total, inflight, finished, requests,
                   all_data, next_future, raised>>
    /\ UNCHANGED mvars
    /\ UNCHANGED svars
    /\ UNCHANGED xvars

\* one turn of "for future in futures: result = future.result()": the futures
\* are awaited in submission order; result['data']['diff'] raises KeyError
\* when "data" has no "diff", and the exception leaves the with block
LegacyConsume ==
    /\ fpc = "lcollect"
    /\ next_future <= max_pages
    /\ next_future \in finished
    /\ finished' = finished \ {next_future}
    /\ IF resp[next_future].kind = "nodiff"
       THEN /\ raised' = TRUE
            /\ fpc' = "unwind"
            /\ UNCHANGED <<all_data, next_future>>
       ELSE /\ all_data' = ExtendWith(all_data, next_future)
            /\ next_future' = next_future + 1
            /\ UNCHANGED <<raised, fpc>>
    /\ UNCHANGED <<fetcher, max_pages, resp, total, submitted, inflight, requests>>
    /\ UNCHANGED mvars
    /\ UNCHANGED svars
    /\ UNCHANGED xvars

\* every future was consumed: the with block ends and all_data is returned
LegacyReturn ==
    /\ fpc = "lcollect"
    /\ next_future > max_pages
    /\ fpc' = "done"
    /\ UNCHANGED <<fetcher, max_pages, resp, total, submitted, inflight, finished,
                   requests, all_data, next_future, raised>>
    /\ UNCHANGED mvars
    /\ UNCHANGED svars
    /\ UNCHANGED xvars

\* the with block is left by an exception: shutdown(wait=True) lets the
\* submitted page requests run to their end, then the exception propagates
LegacyUnwind ==
    /\ fpc = "unwind"
    /\ submitted = {} /\ inflight = {}
    /\ fpc' = "done"
    /\ UNCHANGED <<fetcher, max_pages, resp, total, submitted, inflight, finished,
                   requests, all_data, next_future, raised>>
    /\ UNCHANGED mvars
    /\ UNCHANGED svars
    /\ UNCHANGED xvars

NextFetch ==
    \/ FetchFirstPage
    \/ LegacySubmit
    \/ LegacyConsume
    \/ LegacyReturn
    \/ LegacyUnwind
    \/ \E p \in Pages : IssueRequest(p)
    \/ \E p \in Pages : CompleteRequest(p)
    \/ \E p \in Pages : ConsumeCompleted(p)
    \/ FetchReturn

SpecFetch == InitFetch /\ [][NextFetch]_vars

(***************************************************************************)
(* Claims about the fetch-all operations                                   *)
(***************************************************************************)
\* ceil(t / p), stated without the code's rounding expression
CeilDiv(t, p) == CHOOSE n \in 0..t : n * p >= t /\ (n = 0 \/ (n - 1) * p < t)

\* the codes of the records of the result list that came from page p, in order
FromPage(p) ==
    LET own == SelectSeq(all_data, LAMBDA r : r.page = p)
    IN  [i \in 1..Len(own) |-> own[i].code]

\* one request for each page 1..n and none for any other page
RequestedExactly(n) ==
    \A p \in Pages : requests[p] = (IF p <= n THEN 1 ELSE 0)

\* the requests and the result of a finished call whose first page reported
\* total = T > 0, as P1 states them
PaginationComplete ==
    LET n == CeilDiv(total, PageSize)
    IN  /\ RequestedExactly(n)
        /\ Cardinality({p \in Pages : p >= 2 /\ requests[p] > 0}) = n - 1
        /\ (\A p \in 1..n : resp[p].kind = "ok")
              => /\ \A p \in Pages :
                      FromPage(p) = (IF p <= n THEN resp[p].diff ELSE <<>>)
                 /\ \A i \in 1..Len(all_data) : all_data[i].page \in 1..n

\* C1 as stated: for every fetch-all operation, a first page reporting
\* total = T > 0 leads to exactly ceil(T/100) - 1 further page requests, one
\* for each page 2..ceil(T/100), none twice, and the result holds every
\* page's diff array when all pages succeed.
C1_Original ==
    (fpc = "done" /\ ~raised /\ FirstPageUsable(resp[1]) /\ total > 0)
        => PaginationComplete

\* C1 (amended): fetch_all_quotes issues, after a first page reporting
\* total = T > 0, exactly ceil(T/100) - 1 further requests, one for each page
\* 2..ceil(T/100), none twice, and returns exactly the records of every page's
\* diff array when all pages succeed; fetch_all_pages(max_pages) requests the
\* pages 1..max_pages once each whatever total the responses report.
C1_PaginationByTotal ==
    /\ (fetcher = "quotes" /\ fpc = "done" /\ FirstPageUsable(resp[1]) /\ total > 0)
          => PaginationComplete
    /\ (fetcher = "legacy" /\ fpc = "done") => RequestedExactly(max_pages)

\* C1 witness: total = 250, three pages that all succeed with records, all in
\* the returned list after requests for pages 1, 2 and 3
C1_Witness ==
    /\ fetcher = "quotes" /\ fpc = "done" /\ total = ExampleTotal
    /\ \A p \in 1..3 : resp[p].kind = "ok" /\ Len(resp[p].diff) > 0
    /\ \A p \in 1..3 : requests[p] = 1 /\ FromPage(p) = resp[p].diff

\* C2: a failed page request is issued once and never retried, raises nothing
\* to the caller and contributes no records; the call returns the
\* concatenation of the diff arrays of the pages fetched successfully.
C2_FailedPageSkipped ==
    /\ \A p \in Pages : requests[p] <= 1
    /\ \A p \in Pages : resp[p].kind = "fail" => FromPage(p) = <<>>
    /\ raised => \E p \in Pages : requests[p] > 0 /\ resp[p].kind = "nodiff"
    /\ (fpc = "done" /\ ~raised)
          => \A p \in Pages :
                FromPage(p) = (IF requests[p] > 0 /\ resp[p].kind = "ok"
                               THEN resp[p].diff ELSE <<>>)

\* C2 witness: page 2 failed after one request, and the call returned the
\* records of pages 1 and 3
C2_Witness ==
    /\ fetcher = "quotes" /\ fpc = "done" /\ ~raised
    /\ resp[2].kind = "fail" /\ requests[2] = 1
    /\ FromPage(1) # <<>> /\ FromPage(3) # <<>> /\ FromPage(2) = <<>>

(***************************************************************************)
(* The Monitor: start(), stop() and the polling loop _run                  *)
(***************************************************************************)
FetchAtRest ==
    /\ fetcher = "quotes"
    /\ max_pages = 0
    /\ resp = [p \in Pages |-> [kind |-> "fail", diff |-> <<>>]]
    /\ total = 0
    /\ fpc = "start"
    /\ submitted = {}
    /\ inflight = {}
    /\ finished = {}
    /\ requests = [p \in Pages |-> 0]
    /\ all_data = <<>>
    /\ next_future = 1
    /\ raised = FALSE

InitMon ==
    /\ MapAtRest
    /\ SaveAtRest
    /\ ValidateAtRest
    /\ ParseAtRest
    /\ KlineAtRest
    /\ SchedAtRest
    /\ CacheAtRest
    /\ FetchAtRest
    /\ ScrapeAtRest
    /\ MonitorAtRest
    /\ monitor \in Monitors

\* the test that guards the update of last_data and the callback:
\* "if not df.empty" (SectorMonitor), and "if data_dict" (StockKlineMonitor),
\* where data_dict holds one entry for each stock code, also for a stock
\* whose frame is empty
HasData(m, o) ==
    IF m = "kline" THEN o \in {"ok", "nodata"} ELSE o = "ok"

\* mutant: the sleep after an exception is not capped
ErrorSleepUncapped(i) == i

\* time.sleep(min(self.interval, 30)) of the loop's exception handler
ErrorSleep(i) ==
    IF i < ErrorSleepCap \div Quantum THEN i ELSE ErrorSleepCap \div Quantum

\* mutant: thread.join() without a timeout
JoinDoneNoTimeout == wk[thread].pc \notin Alive

\* thread.join(timeout=5) returns: the worker ended or the timeout passed
JoinDone == wk[thread].pc \notin Alive \/ ctl.waited >= JoinTicks

\* the worker id of the Thread object start() creates
FreeWorker ==
    CHOOSE w \in Workers :
        /\ wk[w].pc \notin Alive
        /\ \A v \in Workers : wk[v].pc \notin Alive => w <= v

\* set_callback
SetCallback ==
    /\ ~callback
    /\ callback' = TRUE
    /\ UNCHANGED <<monitor, is_running, thread, interval, last_data, wk, ctl,
                   lastPoll, lastGood>>
    /\ UNCHANGED fvars
    /\ UNCHANGED svars
    /\ UNCHANGED xvars

\* start(interval): returns at once when is_running, else sets the interval
\* and the flag and starts a new thread on _run
Start(i) ==
    /\ ctl.pc = "idle"
    /\ IF is_running
       THEN /\ ctl' = [ctl EXCEPT !.call = "start_noop"]
            /\ UNCHANGED <<is_running, interval, thread, wk>>
       ELSE /\ \E w \in Workers : wk[w].pc \notin Alive
            /\ ctl' = [ctl EXCEPT !.call = "start"]
            /\ interval' = i
            /\ is_running' = TRUE
            /\ thread' = FreeWorker
            /\ wk' = [wk EXCEPT ![FreeWorker] = [NoWorker EXCEPT !.pc = "check"]]
    /\ UNCHANGED <<monitor, callback, last_data, lastPoll, lastGood>>
    /\ UNCHANGED fvars
    /\ UNCHANGED svars
    /\ UNCHANGED xvars

\* stop() up to the join: returns at once when not is_running, else clears
\* the flag and joins the thread if it is alive
Stop ==
    /\ ctl.pc = "idle"
    /\ IF ~is_running
       THEN /\ ctl' = [ctl EXCEPT !.call = "stop_noop"]
            /\ UNCHANGED <<is_running, thread, wk>>
       ELSE /\ is_running' = FALSE
            /\ IF thread # 0 /\ wk[thread].pc \in Alive
               THEN /\ ctl' = [pc |-> "joining", waited |-> 0, call |-> "stop"]
                    /\ wk' = [wk EXCEPT ![thread] =
                                IF @.stopped THEN @
                                ELSE [@ EXCEPT !.stopped = TRUE,
                                               !.left = interval + JoinTicks]]
                    /\ UNCHANGED thread
               ELSE /\ thread' = 0
                    /\ ctl' = [ctl EXCEPT !.call = "stop"]
                    /\ UNCHANGED wk
    /\ UNCHANGED <<monitor, interval, callback, last_data, lastPoll, lastGood>>
    /\ UNCHANGED fvars
    /\ UNCHANGED svars
    /\ UNCHANGED xvars

\* stop() after the join: self.thread = None, and stop() returns
JoinReturn ==
    /\ ctl.pc = "joining"
    /\ JoinDone
    /\ thread' = 0
    /\ ctl' = [ctl EXCEPT !.pc = "idle", !.waited = 0]
    /\ UNCHANGED <<monitor, is_running, interval, callback, last_data, wk,
                   lastPoll, lastGood>>
    /\ UNCHANGED fvars
    /\ UNCHANGED svars
    /\ UNCHANGED xvars

\* "while self.is_running": the loop goes on to the scraper call, which will
\* take f time units, or ends
LoopCheck(w, f) ==
    /\ wk[w].pc = "check"
    /\ IF is_running
       THEN wk' = [wk EXCEPT ![w].pc = "fetch", ![w].t = f]
       ELSE wk' = [wk EXCEPT ![w] = [NoWorker EXCEPT !.pc = "exit"]]
    /\ UNCHANGED <<monitor, is_running, thread, interval, callback, last_data,
                   ctl, lastPoll, lastGood>>
    /\ UNCHANGED fvars
    /\ UNCHANGED svars
    /\ UNCHANGED xvars

\* stop() has returned and start() was not called since
Stopped == ~is_running /\ ctl.pc = "idle"

\* the scraper call ends with outcome o (and frame d); the loop updates
\* last_data, calls the callback inside its own try/except (cbraises: the
\* callback raises), and goes to sleep
FetchDone(w, o, d, cbraises) ==
    /\ wk[w].pc = "fetch"
    /\ wk[w].t = 0
    /\ LET has == o # "raise" /\ HasData(monitor, o)
           called == has /\ callback
       IN  /\ last_data' = (IF ~has THEN last_data
                            ELSE IF o = "ok" THEN d ELSE "empty")
           /\ lastGood' = (IF o = "ok" THEN d ELSE lastGood)
           /\ lastPoll' = [outcome |-> o, updated |-> has, called |-> called,
                           cb_raised |-> called /\ cbraises,
                           after_stop |-> Stopped]
           /\ wk' = [wk EXCEPT
                       ![w].pc = "sleep",
                       ![w].t = (IF o = "raise" THEN ErrorSleep(interval)
                                 ELSE interval)]
    /\ UNCHANGED <<monitor, is_running, thread, interval, callback, ctl>>
    /\ UNCHANGED fvars
    /\ UNCHANGED svars
    /\ UNCHANGED xvars

\* time.sleep returns
SleepDone(w) ==
    /\ wk[w].pc = "sleep"
    /\ wk[w].t = 0
    /\ wk' = [wk EXCEPT ![w].pc = "check"]
    /\ UNCHANGED <<monitor, is_running, thread, interval, callback, last_data,
                   ctl, lastPoll, lastGood>>
    /\ UNCHANGED fvars
    /\ UNCHANGED svars
    /\ UNCHANGED xvars

\* a step that takes no time is due: time does not pass before it
Urgent ==
    \/ \E w \in Workers : wk[w].pc = "check"
    \/ \E w \in Workers : wk[w].pc \in {"fetch", "sleep"} /\ wk[w].t = 0
    \/ ctl.pc = "joining" /\ JoinDone

\* one time unit passes: every running scraper call, sleep and join advances;
\* left goes below 0 when more than interval + 5 s have passed since stop()
Tick ==
    /\ ~Urgent
    /\ \E w \in Workers : wk[w].pc \in Alive
    /\ wk' = [w \in Workers |->
                IF wk[w].pc \notin Alive THEN wk[w]
                ELSE [wk[w] EXCEPT
                        !.t = @ - 1,
                        !.left = (IF wk[w].stopped /\ @ >= 0 THEN @ - 1 ELSE @)]]
    /\ ctl' = (IF ctl.pc = "joining" THEN [ctl EXCEPT !.waited = @ + 1] ELSE ctl)
    /\ UNCHANGED <<monitor, is_running, thread, interval, callback, last_data,
                   lastPoll, lastGood>>
    /\ UNCHANGED fvars
    /\ UNCHANGED svars
    /\ UNCHANGED xvars

\* start() and stop() called at any moment, scraper calls of any duration
NextMon ==
    \/ SetCallback
    \/ \E i \in Intervals : Start(i)
    \/ Stop
    \/ JoinReturn
    \/ \E w \in Workers, f \in FetchTicks : LoopCheck(w, f)
    \/ \E w \in Workers, o \in Outcomes : FetchDone(w, o, "df1", FALSE)
    \/ \E w \in Workers : SleepDone(w)
    \/ Tick

SpecMon == InitMon /\ [][NextMon]_vars

\* a Monitor that is started and polls: scraper calls with any outcome,
\* callbacks that raise or return
NextPoll ==
    \/ SetCallback
    \/ \E i \in LongIntervals : Start(i)
    \/ \E w \in Workers : LoopCheck(w, 0)
    \/ \E w \in Workers, o \in Outcomes, d \in Frames, c \in BOOLEAN :
          FetchDone(w, o, d, c)
    \/ \E w \in Workers : SleepDone(w)
    \/ Tick

SpecPoll == InitMon /\ [][NextPoll]_vars

(***************************************************************************)
(* Claims about the Monitor                                                *)
(***************************************************************************)
AliveWorkers == {w \in Workers : wk[w].pc \in Alive}

\* C3 (as stated): at any time at most one worker thread is executing the
\* polling loop of the Monitor, whatever the sequence of start() and stop()
\* calls and the durations of the scraper calls.
C3_Original == Cardinality(AliveWorkers) <= 1

\* two workers are inside a scraper call at the same time, and one of them
\* began its call after the stop() that was to end it
C3_Witness ==
    \E v, w \in Workers :
        /\ v # w
        /\ wk[v].pc = "fetch"
        /\ wk[w].pc = "fetch"
        /\ wk[v].stopped
        /\ wk[v].left < 0

\* min(interval, 30 s) in time units
CappedInterval == 
    IF interval <= ErrorSleepCap \div Quantum THEN interval
    ELSE ErrorSleepCap \div Quantum

\* one step of worker w, with the running flag set before it
LoopStep(w) ==
    /\ (is_running /\ wk[w].pc \in Alive) => wk'[w].pc \in Alive
    /\ (is_running /\ wk[w].pc = "check" /\ wk'[w].pc # "check")
          => wk'[w].pc = "fetch"
    /\ (wk[w].pc = "fetch" /\ wk'[w].pc # "fetch")
          => /\ wk'[w].pc = "sleep"
             /\ wk'[w].t = (IF lastPoll'.outcome = "raise" THEN CappedInterval
                            ELSE interval)
    /\ (wk[w].pc = "sleep" /\ wk'[w].pc # "sleep")
          => /\ wk[w].t = 0
             /\ wk'[w].pc = "check"
    /\ (wk[w].pc = "sleep" /\ wk'[w].pc = "sleep") => wk'[w].t \in {wk[w].t, wk[w].t - 1}

C5_Original == \A w \in Workers : wk[w].pc \in Alive => wk[w].left >= 0

\* C6 (as stated): stop() called during a scraper call does not return
\* before the cycle is complete: once stop() has returned and start() is not
\* called again, no worker is inside a scraper call, and no poll updates
\* last_data or calls the callback.
C6_Original ==
    /\ Stopped => \A w \in Workers : wk[w].pc # "fetch"
    /\ lastPoll.after_stop => ~lastPoll.updated /\ ~lastPoll.called

\* stop() on a Monitor that is not running
StopNotRunning ==
    /\ ctl.pc = "idle"
    /\ ~is_running
    /\ ctl'.call = "stop_noop"
    /\ ctl.call # "stop_noop"

\* C7: stop() waits at most the join timeout and returns, also with the
\* worker still alive; after it the Monitor is not running; stop() on a
\* Monitor that is not running changes nothing.
C7_StopReturns ==
    /\ [](ctl.waited <= JoinTicks)
    /\ []((ctl.pc = "idle" /\ ctl.call \in {"stop", "stop_noop"})
            => ~is_running /\ thread = 0)
    /\ [][StopNotRunning =>
            UNCHANGED <<is_running, thread, interval, callback, last_data, wk>>]_vars

\* stop() has returned after the whole join timeout, the worker is alive
C7_Witness ==
    /\ ctl.pc = "idle"
    /\ ctl.call = "stop"
    /\ \E w \in Workers : wk[w].pc \in Alive /\ wk[w].stopped

\* C8 (as stated): last_data is the result of the most recent poll that
\* fetched data, or None; a poll that failed or fetched no data leaves
\* last_data as it was and calls no callback.
C8_Original ==
    /\ last_data = lastGood
    /\ lastPoll.outcome \in {"nodata", "raise"}
          => ~lastPoll.updated /\ ~lastPoll.called

(***************************************************************************)
(* scrape_all_data: parse, merge, sort                                     *)
(***************************************************************************)
\* parse_concept_quotes, parse_quotes_data: one row for each raw record, in
\* the order of the list; q stands for the quote columns of the record, the
\* capital-flow columns are not there yet
ParseQuotes(raw) ==
    [i \in 1..Len(raw) |->
        [code |-> raw[i], q |-> i, flow |-> [p \in Periods |-> <<>>]]]

\* parse_capital_flow: one row for each raw record; v stands for the
\* capital-flow columns of the record
ParseFlow(raw) == [i \in 1..Len(raw) |-> [code |-> raw[i], v |-> i]]

\* the rows of right with the key of row
Matching(row, right) == SelectSeq(right, LAMBDA r : r.code = row.code)

\* the rows a left merge makes of one left row: one for each matching right
\* row, or the row with nulls (<<>>) in the columns of right
MergeRow(row, right, p) ==
    LET m == Matching(row, right)
    IN  IF m = <<>> THEN <<[row EXCEPT !.flow[p] = <<>>]>>
        ELSE [i \in 1..Len(m) |-> [row EXCEPT !.flow[p] = <<m[i].v>>]]

RECURSIVE InnerMerge(_, _, _)
\* mutant: pd.merge(..., how='inner')
InnerMerge(left, right, p) ==
    IF left = <<>> THEN <<>>
    ELSE (IF Matching(Head(left), right) = <<>> THEN <<>>
          ELSE MergeRow(Head(left), right, p))
            \o InnerMerge(Tail(left), right, p)

RECURSIVE LeftMerge(_, _, _)
\* pd.merge(df_merged, df_flow[cols], on='板块代码', how='left'): the rows of
\* left in their order
LeftMerge(left, right, p) ==
    IF left = <<>> THEN <<>>
    ELSE MergeRow(Head(left), right, p) \o LeftMerge(Tail(left), right, p)

RECURSIVE SortByPct(_)
\* sort_values('涨跌幅', ascending=False).reset_index(drop=True); rows that
\* tie keep their order
SortByPct(rows) ==
    IF rows = <<>> THEN <<>>
    ELSE LET r == rows[Len(rows)]
             s == SortByPct(SubSeq(rows, 1, Len(rows) - 1))
             k == Cardinality({i \in 1..Len(s) : Pct(s[i].code) >= Pct(r.code)})
         IN  SubSeq(s, 1, k) \o <<r>> \o SubSeq(s, k + 1, Len(s))

NextPeriod(p) ==
    IF p = PeriodOrder[Len(PeriodOrder)] THEN "return"
    ELSE PeriodOrder[(CHOOSE i \in 1..Len(PeriodOrder) : PeriodOrder[i] = p) + 1]

InitScrape ==
    /\ MapAtRest
    /\ SaveAtRest
    /\ ValidateAtRest
    /\ ParseAtRest
    /\ KlineAtRest
    /\ SchedAtRest
    /\ CacheAtRest
    /\ FetchAtRest
    /\ MonitorAtRest
    /\ monitor = "sector"
    /\ scraper \in Scrapers
    /\ calls = NoCalls
    /\ spc = "start"
    /\ df_merged = <<>>
    /\ columns = {}
    /\ last_merge = NoMerge
    /\ scrape_result = <<>>

\* mutant: the capital-flow fetches are submitted before df_quotes is tested
FlowsSubmittedAlways(sc, rows) ==
    [p \in Periods |-> IF sc = "concept" THEN "submitted" ELSE "none"]

\* "if df_quotes.empty: return pd.DataFrame()" stands before the executor
\* that submits fetch_capital_flow for the three periods; the sector scraper
\* has no capital-flow fetch
FlowsSubmitted(sc, rows) ==
    [p \in Periods |->
        IF sc = "concept" /\ rows # <<>> THEN "submitted" ELSE "none"]

\* mutant: the merge is not guarded, and the exception of a merge with an
\* empty DataFrame ends the call with an empty DataFrame
MergeInUnguarded(df, flow, p) ==
    IF flow = <<>> THEN <<>> ELSE LeftMerge(df, flow, p)

\* "if not df_flow.empty: df_merged = pd.merge(...)"
MergeIn(df, flow, p) ==
    IF flow = <<>> THEN df ELSE LeftMerge(df, flow, p)

\* step 1 of scrape_all_data: fetch and parse the quotes; an empty table
\* ends the call with an empty DataFrame; else the concept scraper submits
\* the three capital-flow fetches
ScrapeQuotes(raw) ==
    /\ spc = "start"
    /\ calls' = [calls EXCEPT !.quotes = @ + 1,
                              !.rows = Len(ParseQuotes(raw)),
                              !.flow = FlowsSubmitted(scraper, ParseQuotes(raw))]
    /\ IF ParseQuotes(raw) = <<>>
       THEN /\ spc' = "done"
            /\ UNCHANGED df_merged
       ELSE /\ df_merged' = ParseQuotes(raw)
            /\ spc' = (IF scraper = "concept" THEN PeriodOrder[1] ELSE "return")
    /\ UNCHANGED <<scraper, columns, last_merge, scrape_result>>
    /\ UNCHANGED fvars
    /\ UNCHANGED mvars
    /\ UNCHANGED xvars

\* steps 2 and 3 for one period: the result of fetch_capital_flow(period) is
\* parsed and, unless the table is empty, merged into df_merged
MergeFlow(raw) ==
    /\ spc \in Periods
    /\ calls' = [calls EXCEPT !.flow[spc] =
                    IF ParseFlow(raw) = <<>> THEN "empty" ELSE "data"]
    /\ df_merged' = MergeIn(df_merged, ParseFlow(raw), spc)
    /\ IF ParseFlow(raw) = <<>>
       THEN UNCHANGED <<columns, last_merge>>
       ELSE /\ columns' = columns \cup {spc}
            /\ last_merge' = [period |-> spc, left |-> df_merged,
                              right |-> ParseFlow(raw),
                              out |-> LeftMerge(df_merged, ParseFlow(raw), spc)]
    /\ spc' = NextPeriod(spc)
    /\ UNCHANGED <<scraper, scrape_result>>
    /\ UNCHANGED fvars
    /\ UNCHANGED mvars
    /\ UNCHANGED xvars

\* the end of scrape_all_data: the timestamp column (the same value in every
\* row) is added, the table is sorted and returned
ScrapeReturn ==
    /\ spc = "return"
    /\ scrape_result' = SortByPct(df_merged)
    /\ spc' = "done"
    /\ UNCHANGED <<scraper, df_merged, columns, last_merge, calls>>
    /\ UNCHANGED fvars
    /\ UNCHANGED mvars
    /\ UNCHANGED xvars

NextScrape ==
    \/ \E raw \in QuoteLists : ScrapeQuotes(raw)
    \/ \E raw \in FlowLists : MergeFlow(raw)
    \/ ScrapeReturn

SpecScrape == InitScrape /\ [][NextScrape]_vars

(***************************************************************************)
(* Claims about scrape_all_data                                            *)
(***************************************************************************)
KeysOf(t) == {t[i].code : i \in 1..Len(t)}

DistinctKeys(t) == \A i, j \in 1..Len(t) : t[i].code = t[j].code => i = j

\* the capital-flow columns of the row of t with key c (t has one such row)
ValueAt(t, c) == (CHOOSE r \in Range(t) : r.code = c).v

\* C9: a left merge of a primary table of N distinct keys with an auxiliary
\* table whose keys, each in one row, are a strict subset of them has the N
\* rows of the primary table: each row keeps its own columns, has the
\* auxiliary columns of its key, and nulls where the auxiliary table lacks
\* the key.
C9_MergeKeepsRows ==
    LET l == last_merge.left
        r == last_merge.right
        o == last_merge.out
        p == last_merge.period
    IN  (/\ p # "none"
         /\ DistinctKeys(l)
         /\ DistinctKeys(r)
         /\ KeysOf(r) \subseteq KeysOf(l)
         /\ KeysOf(r) # KeysOf(l))
        => /\ Len(o) = Len(l)
           /\ \A i \in 1..Len(l) :
                /\ o[i].code = l[i].code
                /\ o[i].q = l[i].q
                /\ \A x \in Periods \ {p} : o[i].flow[x] = l[i].flow[x]
                /\ o[i].flow[p] = (IF l[i].code \in KeysOf(r)
                                   THEN <<ValueAt(r, l[i].code)>> ELSE <<>>)

\* the spec's example: primary keys [A, B, C], auxiliary keys [A, C]
C9_Witness ==
    /\ last_merge.period # "none"
    /\ [i \in 1..Len(last_merge.left) |-> last_merge.left[i].code] = <<"A", "B", "C">>
    /\ [i \in 1..Len(last_merge.right) |-> last_merge.right[i].code] = <<"A", "C">>
    /\ Len(last_merge.out) = Len(last_merge.left)
    /\ last_merge.out[2].flow[last_merge.period] = <<>>

\* C10 (as stated): every non-empty table scrape_all_data returns has one
\* row for each distinct sector code, whatever the fetched lists held.
C10_Original == DistinctKeys(scrape_result)

\* C11: when the quote fetch yields no rows, scrape_all_data ends with an
\* empty table, having called the quote fetch once and no capital-flow fetch.
C11_EmptyPrimaryAborts ==
    (calls.quotes > 0 /\ calls.rows = 0)
        => /\ spc = "done"
           /\ scrape_result = <<>>
           /\ calls.quotes = 1
           /\ \A p \in Periods : calls.flow[p] = "none"
           /\ columns = {}

\* the concept scraper has fetched an empty quote list
C11_Witness ==
    /\ scraper = "concept"
    /\ calls.quotes = 1
    /\ calls.rows = 0
    /\ spc = "done"

\* the periods whose capital-flow fetch returned no records
FailedPeriods == {p \in Periods : calls.flow[p] = "empty"}

\* C12: with a non-empty primary table, whichever capital-flow fetches
\* fail, the returned table holds every primary row, and the columns of
\* exactly the periods whose fetch returned data.
C12_PartialFailureTolerated ==
    (spc = "done" /\ calls.rows > 0)
        => /\ scrape_result # <<>>
           /\ {scrape_result[i].q : i \in 1..Len(scrape_result)} = 1..calls.rows
           /\ scraper = "concept" => columns = Periods \ FailedPeriods
           /\ \A i \in 1..Len(scrape_result) :
                \A p \in Periods \ columns : scrape_result[i].flow[p] = <<>>

\* the call has returned a table of three primary rows after the fetches of
\* today and 10 days failed and the one of 5 days returned data
C12_Witness ==
    /\ spc = "done"
    /\ calls.rows = MaxRows
    /\ FailedPeriods = {"today", "10day"}
    /\ columns = {"5day"}
    /\ Len(scrape_result) >= MaxRows

(***************************************************************************)
(* scrape_stock_to_sector_mapping and the facade functions that call it.   *)
(* A dictionary is the sequence of its entries [k, v] in insertion order.  *)
(***************************************************************************)
Keys(d) == {d[i].k : i \in 1..Len(d)}

\* d[k], <<>> when d has no key k
Get(d, k) ==
    IF k \in Keys(d) THEN (CHOOSE e \in Range(d) : e.k = k).v ELSE <<>>

\* mutant: the sector code is appended without the membership test
AddSectorAlways(d, stock, c) ==
    IF stock \notin Keys(d) THEN Append(d, [k |-> stock, v |-> <<c>>])
    ELSE [i \in 1..Len(d) |->
            IF d[i].k = stock THEN [d[i] EXCEPT !.v = Append(@, c)] ELSE d[i]]

\* "if stock_code not in stock_to_sector_map: ...[stock_code] = []" and
\* "if original_sector_code not in ...[stock_code]: ....append(...)"
AddSector(d, stock, c) ==
    IF stock \notin Keys(d) THEN Append(d, [k |-> stock, v |-> <<c>>])
    ELSE [i \in 1..Len(d) |->
            IF d[i].k = stock /\ c \notin Range(d[i].v)
            THEN [d[i] EXCEPT !.v = Append(@, c)] ELSE d[i]]

RECURSIVE AddStocks(_, _, _)
\* "for stock_code in stock_codes_in_sector"
AddStocks(d, stocks, c) ==
    IF stocks = <<>> THEN d
    ELSE AddStocks(AddSector(d, Head(stocks), c), Tail(stocks), c)

\* "if stock not in stock_to_concepts: ...[stock] = []" and
\* "stock_to_concepts[stock].append(concept)" of get_stock_to_concept_map
AppendTo(d, k, x) ==
    IF k \notin Keys(d) THEN Append(d, [k |-> k, v |-> <<x>>])
    ELSE [i \in 1..Len(d) |->
            IF d[i].k = k THEN [d[i] EXCEPT !.v = Append(@, x)] ELSE d[i]]

RECURSIVE AppendAll(_, _, _)
\* "for stock in stocks" of get_stock_to_concept_map
AppendAll(d, vals, x) ==
    IF vals = <<>> THEN d
    ELSE AppendAll(AppendTo(d, Head(vals), x), Tail(vals), x)

RECURSIVE Reversed(_, _)
\* "for concept, stocks in mapping.items()" of get_stock_to_concept_map:
\* every value of an entry becomes a key, the entry's key one of its values
Reversed(mapping, acc) ==
    IF mapping = <<>> THEN acc
    ELSE Reversed(Tail(mapping),
                  AppendAll(acc, Head(mapping).v, Head(mapping).k))

\* the dictionary the facade function hands to save_mapping_data:
\* get_stock_to_concept_map saves the outcome of its conversion loop
FacadeSaves(f, mapping) ==
    IF f = "concept_map" THEN Reversed(mapping, <<>>) ELSE mapping

\* a returned dictionary, and the None of a function body that ends without
\* a return statement
Returned(d) == [value |-> "dict", d |-> d]

ReturnedNone == [value |-> "None", d |-> <<>>]

\* what the facade function returns: get_stock_to_sector_mapping ends with
\* "return mapping", the body of get_stock_to_concept_map ends with a
\* logger call
FacadeReturns(f, mapping) ==
    IF f = "concept_map" THEN ReturnedNone ELSE Returned(mapping)

\* save_mapping_data: an empty dictionary writes no file
SavedMapping(file, d) == IF d = <<>> THEN file ELSE d

InitMap ==
    /\ FetchAtRest
    /\ MonitorAtRest
    /\ monitor = "sector"
    /\ ScrapeAtRest
    /\ SaveAtRest
    /\ ValidateAtRest
    /\ ParseAtRest
    /\ KlineAtRest
    /\ SchedAtRest
    /\ CacheAtRest
    /\ facade \in Facades
    /\ save_to_file \in BOOLEAN
    /\ mpc = "start"
    /\ sectors_to_process = <<>>
    /\ results = <<>>
    /\ pending = {}
    /\ stock_to_sector_map = <<>>
    /\ facade_result = NotReturned
    /\ mapping_file = <<>>

\* scrape_stock_to_sector_mapping up to the pool: the sector list is fetched;
\* an empty list ends the call, else one lookup is submitted for each sector
MapStart(secs, res) ==
    /\ mpc = "start"
    /\ DOMAIN res = 1..Len(secs)
    /\ sectors_to_process' = secs
    /\ results' = res
    /\ pending' = 1..Len(secs)
    /\ mpc' = (IF secs = <<>> THEN "returned" ELSE "collect")
    /\ UNCHANGED <<facade, save_to_file, stock_to_sector_map, facade_result,
                   mapping_file>>
    /\ UNCHANGED <<fvars, mvars, svars, yvars>>

\* one round of the as_completed loop: lookup i is the next to complete
MapConsume(i) ==
    /\ mpc = "collect"
    /\ i \in pending
    /\ pending' = pending \ {i}
    /\ stock_to_sector_map' =
          AddStocks(stock_to_sector_map, results[i], sectors_to_process[i])
    /\ UNCHANGED <<facade, save_to_file, mpc, sectors_to_process, results,
                   facade_result, mapping_file>>
    /\ UNCHANGED <<fvars, mvars, svars, yvars>>

\* the loop is over: scrape_stock_to_sector_mapping returns
MapReturn ==
    /\ mpc = "collect"
    /\ pending = {}
    /\ mpc' = "returned"
    /\ UNCHANGED <<facade, save_to_file, sectors_to_process, results, pending,
                   stock_to_sector_map, facade_result, mapping_file>>
    /\ UNCHANGED <<fvars, mvars, svars, yvars>>

\* the facade function after the scraper call: the conversion loop of
\* get_stock_to_concept_map, save_mapping_data if asked for, return
FacadeReturn ==
    /\ mpc = "returned"
    /\ facade_result' = FacadeReturns(facade, stock_to_sector_map)
    /\ mapping_file' =
          (IF save_to_file
           THEN SavedMapping(mapping_file, FacadeSaves(facade, stock_to_sector_map))
           ELSE mapping_file)
    /\ mpc' = "done"
    /\ UNCHANGED <<facade, save_to_file, sectors_to_process, results, pending,
                   stock_to_sector_map>>
    /\ UNCHANGED <<fvars, mvars, svars, yvars>>

NextMap ==
    \/ \E secs \in BoundedSeq(Codes, MaxSectors) :
          \E res \in [1..Len(secs) -> StockLists] : MapStart(secs, res)
    \/ \E i \in 1..MaxSectors : MapConsume(i)
    \/ MapReturn
    \/ FacadeReturn

SpecMap == InitMap /\ [][NextMap]_vars

(***************************************************************************)
(* Claims about the mappings                                               *)
(***************************************************************************)
\* the lookups whose result the loop has consumed
Consumed == (1..Len(sectors_to_process)) \ pending

\* no key twice, no list with the same entry twice
WellFormed(d) ==
    /\ \A i, j \in 1..Len(d) : d[i].k = d[j].k => i = j
    /\ \A i \in 1..Len(d) :
          /\ d[i].v # <<>>
          /\ \A a, b \in 1..Len(d[i].v) : d[i].v[a] = d[i].v[b] => a = b

\* C13: the mapping is the inversion of the constituent lists of the
\* lookups consumed so far: sector c is in the list of stock s exactly when a
\* lookup of c returned s, no list holds a sector twice, a lookup without
\* data adds nothing; the lists taken as sets depend on the lookups'
\* results only, not on their order of completion.
C13_MappingIsInversion ==
    /\ WellFormed(stock_to_sector_map)
    /\ Keys(stock_to_sector_map) \subseteq Stocks
    /\ \A s \in Stocks : \A c \in Codes :
          c \in Range(Get(stock_to_sector_map, s))
            <=> \E i \in Consumed :
                   sectors_to_process[i] = c /\ s \in Range(results[i])

\* both lookups of a list that names one sector twice are consumed; the
\* first returned two stocks and the second failed
C13_Witness ==
    /\ mpc = "returned"
    /\ Len(sectors_to_process) = MaxSectors
    /\ \A i \in 1..Len(sectors_to_process) : sectors_to_process[i] = "A"
    /\ results[1] = <<"s1", "s2">>
    /\ results[Len(results)] = <<>>
    /\ Keys(stock_to_sector_map) = Stocks

\* C20 (as stated): the dictionary get_stock_to_concept_map returns has
\* stock codes as keys and lists of concepts as values, it is the scraper's
\* stock-to-sector mapping, and the file written holds the same dictionary.
C20_Original ==
    (mpc = "done" /\ facade = "concept_map")
        => /\ facade_result.value = "dict"
           /\ Keys(facade_result.d) \subseteq Stocks
           /\ \A s \in Stocks :
                Range(Get(facade_result.d, s)) = Range(Get(stock_to_sector_map, s))
           /\ (save_to_file /\ stock_to_sector_map # <<>>)
                 => /\ Keys(mapping_file) \subseteq Stocks
                    /\ \A s \in Stocks :
                          Range(Get(mapping_file, s))
                            = Range(Get(stock_to_sector_map, s))

\* get_stock_to_concept_map has saved the dictionary of a mapping with two
\* stocks
C20_Witness ==
    /\ mpc = "done"
    /\ facade = "concept_map"
    /\ save_to_file
    /\ Keys(stock_to_sector_map) = Stocks
    /\ mapping_file # <<>>

\* ---------------------------------------------------------------------
\* The save operations: save_data of the three scrapers, save_stock_list
\* ---------------------------------------------------------------------

\* the to_csv call of one save that fails: 0 for none, else its position
Fails == {0, 1, 2}

\* df.to_csv(path): the file is created or overwritten and holds the table
Write(fs, name, df) == [fs EXCEPT ![name] = FileOf(df)]

\* what a save operation leaves behind: the files, the returned value, and
\* whether one of its writes failed
Saved(fs, r, failed) == [files |-> fs, result |-> r, failed |-> failed]

\* SectorScraper.save_data, ConceptSectorScraper.save_data: the empty check,
\* then the timestamped file, then the latest file, any exception caught.
\* output_dir is never empty after construction (os.makedirs in __init__).
SaveWithLatest(fs, t, df, fail) ==
    IF df = <<>> THEN Saved(fs, EmptyPath, FALSE)
    ELSE IF fail = 1 THEN Saved(fs, EmptyPath, TRUE)
    ELSE IF fail = 2
         THEN Saved(Write(fs, Timestamped(t), df), EmptyPath, TRUE)
         ELSE Saved(Write(Write(fs, Timestamped(t), df), Latest, df),
                    PathOf(Timestamped(t)), FALSE)

\* StockCapitalFlowScraper.save_data: one to_csv, any exception caught
SaveTimestamped(fs, t, df, fail) ==
    IF fail = 1 THEN Saved(fs, EmptyPath, TRUE)
    ELSE Saved(Write(fs, Timestamped(t), df), PathOf(Timestamped(t)), FALSE)

\* StockListScraper.save_stock_list: one to_csv, no exception handler
SaveStockList(fs, t, df, fail) ==
    IF fail = 1 THEN Saved(fs, Raised, TRUE)
    ELSE Saved(Write(fs, Timestamped(t), df), PathOf(Timestamped(t)), FALSE)

SaveOp(s, fs, t, df, fail) ==
    CASE s \in {"sector", "concept"} -> SaveWithLatest(fs, t, df, fail)
      [] s = "stock_flow" -> SaveTimestamped(fs, t, df, fail)
      [] s = "stock_list" -> SaveStockList(fs, t, df, fail)

\* the last save that returned a path
LastSuccess(last, op, df) ==
    IF op.result.value = "path" THEN FileOf(df) ELSE last

InitSave ==
    /\ FetchAtRest
    /\ MonitorAtRest
    /\ ScrapeAtRest
    /\ monitor = "sector"
    /\ MapAtRest
    /\ ValidateAtRest
    /\ ParseAtRest
    /\ KlineAtRest
    /\ SchedAtRest
    /\ CacheAtRest
    /\ saver \in Savers
    /\ clock = 0
    /\ files = [n \in FileNames |-> NoFile]
    /\ save_call = NoSave
    /\ last_success = NoFile

\* the save operation called on the scraper object
SaveData(df, fail) ==
    LET op == SaveOp(saver, files, clock, df, fail) IN
    /\ files' = op.files
    /\ save_call' = [df |-> df, failed |-> op.failed, called |-> TRUE,
                     result |-> op.result, caller_raised |-> FALSE]
    /\ last_success' = LastSuccess(last_success, op, df)
    /\ UNCHANGED <<saver, clock>>
    /\ UNCHANGED <<fvars, mvars, svars, pvars, zvars>>

\* the save requested by a caller: run_once of the scrapers, the facade
\* functions with save_to_file, get_all_stocks. Each of them skips the save
\* of an empty table and none of them catches what the save raises.
RunOnce(df, fail) ==
    LET op == SaveOp(saver, files, clock, df, fail) IN
    /\ df = <<>> => fail = 0
    /\ files' = (IF df = <<>> THEN files ELSE op.files)
    /\ save_call' =
          (IF df = <<>>
           THEN [df |-> df, failed |-> FALSE, called |-> FALSE,
                 result |-> NoPath, caller_raised |-> FALSE]
           ELSE [df |-> df, failed |-> op.failed, called |-> TRUE,
                 result |-> op.result,
                 caller_raised |-> (op.result = Raised)])
    /\ last_success' =
          (IF df = <<>> THEN last_success
           ELSE LastSuccess(last_success, op, df))
    /\ UNCHANGED <<saver, clock>>
    /\ UNCHANGED <<fvars, mvars, svars, pvars, zvars>>

\* time passes
TickClock ==
    /\ clock < MaxClock
    /\ clock' = clock + 1
    /\ UNCHANGED <<saver, files, save_call, last_success>>
    /\ UNCHANGED <<fvars, mvars, svars, pvars, zvars>>

NextSave ==
    \/ \E df \in SaveTables : \E fail \in Fails : SaveData(df, fail)
    \/ \E df \in SaveTables : \E fail \in Fails : RunOnce(df, fail)
    \/ TickClock

SpecSave == InitSave /\ [][NextSave]_vars

\* a step that is a direct call of the save operation with the table df
SaveDataOf(df) == \E fail \in Fails : SaveData(df, fail)

\* C14: save_data called with an empty table returns the empty string and
\* creates or modifies no file, in every scraper that offers save_data
C14_Original ==
    [][(saver # "stock_list" /\ SaveDataOf(<<>>))
          => (save_call'.result = EmptyPath /\ files' = files)]_vars

\* StockCapitalFlowScraper.save_data was called with an empty table, has
\* returned a path, and the file of that path exists
C14_Witness ==
    /\ saver = "stock_flow"
    /\ save_call.called
    /\ save_call.df = <<>>
    /\ save_call.result.value = "path"
    /\ files[save_call.result.name] = FileOf(<<>>)

\* C15: every successful save_data writes the table to the timestamped
\* file and to the latest file, and the latest file holds the table of the
\* most recent successful save
C15_Original ==
    saver # "stock_list"
        => /\ save_call.result.value = "path"
                => /\ files[save_call.result.name] = FileOf(save_call.df)
                   /\ files[Latest] = FileOf(save_call.df)
           /\ last_success.exists => files[Latest] = last_success

\* a save_data call returned a path and there is no latest file
C15_Witness ==
    /\ saver = "stock_flow"
    /\ save_call.result.value = "path"
    /\ save_call.df # <<>>
    /\ files[save_call.result.name] = FileOf(save_call.df)
    /\ ~files[Latest].exists

\* C16: each successful save_data call creates a new timestamped file and
\* leaves every earlier timestamped file unchanged, whenever the calls are
\* made
C16_Original ==
    [][\A df \in SaveTables :
          (SaveDataOf(df) /\ save_call'.result.value = "path")
              => /\ ~files[save_call'.result.name].exists
                 /\ \A n \in FileNames \ {Latest, save_call'.result.name} :
                       files'[n] = files[n]]_vars

\* two successful saves of different tables: the timestamped file of the
\* first one now holds the table of the second
C16_Witness ==
    /\ saver = "sector"
    /\ save_call.result.value = "path"
    /\ save_call.df = <<"r2">>
    /\ clock = 1
    /\ files[Timestamped(0)] = FileOf(<<"r2">>)

\* C17: a failed write never raises out of the save operation nor out of
\* the call that requested the save; the returned path is empty
C17_Original ==
    /\ save_call.result # Raised
    /\ ~save_call.caller_raised
    /\ save_call.failed => save_call.result = EmptyPath

\* get_all_stocks asked save_stock_list to save, the write failed, and the
\* exception left get_all_stocks
C17_Witness ==
    /\ saver = "stock_list"
    /\ save_call.failed
    /\ save_call.result = Raised
    /\ save_call.caller_raised

\* ---------------------------------------------------------------------
\* The string parameters of the facade functions and of SectorMonitor
\* ---------------------------------------------------------------------

\* the entry points that take a period, sector type, adjust type or market
\* as a string
Entries == {"get_concept_capital_flow", "get_sectors",
            "get_stock_to_sector_mapping", "SectorMonitor",
            "get_stock_kline", "get_multiple_stocks_kline",
            "get_stock_list"}

ParamsOf(e) ==
    CASE e = "get_concept_capital_flow" -> {"flow_period"}
      [] e \in {"get_sectors", "get_stock_to_sector_mapping",
                "SectorMonitor"} -> {"sector_type"}
      [] e \in {"get_stock_kline", "get_multiple_stocks_kline"}
            -> {"kline_period", "adjust_type"}
      [] e = "get_stock_list" -> {"market"}

\* valid_periods of get_concept_capital_flow: the string is used as it is
FlowPeriodMap == [v \in Periods |-> v]

sector_type_map == ("concept" :> "CONCEPT") @@ ("industry" :> "INDUSTRY")

period_map ==
    ("daily" :> "DAILY") @@ ("weekly" :> "WEEKLY") @@ ("monthly" :> "MONTHLY")
    @@ ("min_1" :> "MIN_1") @@ ("min_5" :> "MIN_5") @@ ("min_15" :> "MIN_15")
    @@ ("min_30" :> "MIN_30") @@ ("min_60" :> "MIN_60")

adjust_map ==
    ("none" :> "NONE") @@ ("forward" :> "FORWARD") @@ ("backward" :> "BACKWARD")

market_map ==
    ("all" :> "ALL") @@ ("sh_main" :> "SH_MAIN") @@ ("sz_main" :> "SZ_MAIN")
    @@ ("chinext" :> "CHINEXT") @@ ("star" :> "STAR") @@ ("bj" :> "BJ")

\* a string no table knows
Invalid == "invalid"

\* str.lower() on the strings of the model
Lower(v) == IF v = "STAR" THEN "star" ELSE v

MapOf(p) ==
    CASE p = "flow_period" -> FlowPeriodMap
      [] p = "sector_type" -> sector_type_map
      [] p = "kline_period" -> period_map
      [] p = "adjust_type" -> adjust_map
      [] p = "market" -> market_map

\* the strings a parameter is called with
Inputs(p) ==
    DOMAIN MapOf(p) \cup {Invalid} \cup (IF p = "market" THEN {"STAR"} ELSE {})

ArgsOf(e) ==
    [flow_period : IF "flow_period" \in ParamsOf(e)
                   THEN Inputs("flow_period") ELSE {"unset"},
     kline_period : IF "kline_period" \in ParamsOf(e)
                    THEN Inputs("kline_period") ELSE {"unset"},
     adjust_type : IF "adjust_type" \in ParamsOf(e)
                   THEN Inputs("adjust_type") ELSE {"unset"},
     sector_type : IF "sector_type" \in ParamsOf(e)
                   THEN Inputs("sector_type") ELSE {"unset"},
     market : IF "market" \in ParamsOf(e)
              THEN Inputs("market") ELSE {"unset"}]

Converted(ok, v) == [ok |-> ok, value |-> v]

\* if v not in map: raise ValueError; map[v]
Strict(map, v) ==
    IF v \in DOMAIN map THEN Converted(TRUE, map[v])
    ELSE Converted(FALSE, "unset")

\* map.get(v, default)
GetOr(map, v, default) ==
    IF v \in DOMAIN map THEN Converted(TRUE, map[v])
    ELSE Converted(TRUE, default)

\* what entry point e does with the string v of its parameter p
Convert(e, p, v) ==
    CASE e = "get_multiple_stocks_kline" /\ p = "kline_period"
            -> GetOr(period_map, v, "DAILY")
      [] e = "get_multiple_stocks_kline" /\ p = "adjust_type"
            -> GetOr(adjust_map, v, "FORWARD")
      [] e = "get_stock_list" -> GetOr(market_map, Lower(v), "ALL")
      [] OTHER -> Strict(MapOf(p), v)

InitValidate ==
    /\ FetchAtRest
    /\ MonitorAtRest
    /\ monitor = "sector"
    /\ ScrapeAtRest
    /\ MapAtRest
    /\ SaveAtRest
    /\ ParseAtRest
    /\ KlineAtRest
    /\ SchedAtRest
    /\ CacheAtRest
    /\ entry \in Entries
    /\ args = Unset
    /\ vpc = "start"
    /\ used = Unset
    /\ outcome = "pending"
    /\ net_requests = 0

\* the entry point from its call to the construction of the scraper: each
\* string is looked up; a failed lookup raises ValueError out of the call
Validate(a) ==
    LET ok == \A p \in ParamsOf(entry) : Convert(entry, p, a[p]).ok IN
    /\ vpc = "start"
    /\ a \in ArgsOf(entry)
    /\ args' = a
    /\ used' = (IF ok
                THEN [p \in Params |->
                        IF p \in ParamsOf(entry)
                        THEN Convert(entry, p, a[p]).value ELSE "unset"]
                ELSE used)
    /\ outcome' = (IF ok THEN outcome ELSE "value_error")
    /\ vpc' = (IF ok THEN "validated" ELSE "done")
    /\ UNCHANGED <<entry, net_requests>>
    /\ UNCHANGED <<fvars, mvars, svars, pvars, dvars, wvars>>

\* a facade function goes on: the scraper issues its requests and the
\* function returns
Request ==
    /\ vpc = "validated"
    /\ entry # "SectorMonitor"
    /\ net_requests' = net_requests + 1
    /\ outcome' = "returned"
    /\ vpc' = "done"
    /\ UNCHANGED <<entry, args, used>>
    /\ UNCHANGED <<fvars, mvars, svars, pvars, dvars, wvars>>

\* SectorMonitor.__init__ goes on: no request before start()
Constructed ==
    /\ vpc = "validated"
    /\ entry = "SectorMonitor"
    /\ outcome' = "returned"
    /\ vpc' = "done"
    /\ UNCHANGED <<entry, args, used, net_requests>>
    /\ UNCHANGED <<fvars, mvars, svars, pvars, dvars, wvars>>

NextValidate ==
    \/ \E a \in ArgsOf(entry) : Validate(a)
    \/ Request
    \/ Constructed

SpecValidate == InitValidate /\ [][NextValidate]_vars

\* the strings the lookup tables of parameter p know
Recognised(p) == {v \in Inputs(p) : Lower(v) \in DOMAIN MapOf(p)}

\* C18: an entry point called with an unrecognised period, market type,
\* sector type or adjust type string raises a value error before any
\* network request
C18_Original ==
    (vpc # "start" /\ \E p \in ParamsOf(entry) : args[p] \notin Recognised(p))
        => (outcome = "value_error" /\ net_requests = 0)

\* get_multiple_stocks_kline was called with an unknown period, has sent
\* its requests for daily K-lines and has returned
C18_Witness ==
    /\ entry = "get_multiple_stocks_kline"
    /\ args.kline_period = Invalid
    /\ used.kline_period = "DAILY"
    /\ outcome = "returned"
    /\ net_requests > 0

\* ---------------------------------------------------------------------
\* StockCapitalFlowFetcher.fetch_all_capital_flow(max_pages)
\* ---------------------------------------------------------------------

InitFlow ==
    /\ MapAtRest
    /\ SaveAtRest
    /\ ValidateAtRest
    /\ ParseAtRest
    /\ KlineAtRest
    /\ SchedAtRest
    /\ CacheAtRest
    /\ MonitorAtRest
    /\ monitor = "sector"
    /\ ScrapeAtRest
    /\ fetcher = "stock_flow"
    /\ max_pages \in 0..MaxPages
    /\ resp \in [Pages -> Responses]
    /\ total \in Totals
    /\ fpc = "start"
    /\ submitted = {}
    /\ inflight = {}
    /\ finished = {}
    /\ requests = [p \in Pages |-> 0]
    /\ all_data = <<>>
    /\ next_future = 1
    /\ raised = FALSE

\* fetch_all_capital_flow up to the creation of the pool: the first page is
\* requested whatever max_pages is, and its records are kept
FlowFirstPage ==
    /\ fetcher = "stock_flow"
    /\ fpc = "start"
    /\ requests' = [requests EXCEPT ![1] = @ + 1]
    /\ IF ~FirstPageUsable(resp[1])
       THEN /\ fpc' = "done"
            /\ UNCHANGED <<all_data, submitted>>
       ELSE /\ all_data' = ExtendWith(all_data, 1)
            /\ IF total = 0 \/ FlowTotalPages(max_pages, total) <= 1
               THEN /\ fpc' = "done"
                    /\ UNCHANGED submitted
               ELSE /\ fpc' = "collect"
                    /\ submitted' = 2..FlowTotalPages(max_pages, total)
    /\ UNCHANGED <<fetcher, max_pages, resp, total, inflight, finished,
                   next_future, raised>>
    /\ UNCHANGED mvars
    /\ UNCHANGED svars
    /\ UNCHANGED xvars

NextFlow ==
    \/ FlowFirstPage
    \/ \E p \in Pages : IssueRequest(p)
    \/ \E p \in Pages : CompleteRequest(p)
    \/ \E p \in Pages : ConsumeCompleted(p)
    \/ FetchReturn

SpecFlow == InitFlow /\ [][NextFlow]_vars

RECURSIVE SumUpTo(_, _)
SumUpTo(f, n) == IF n = 0 THEN 0 ELSE f[n] + SumUpTo(f, n - 1)

\* the page requests the call has issued so far
PageRequests == SumUpTo(requests, MaxPages)

\* the pages the returned records come from
PagesReturned == {all_data[i].page : i \in 1..Len(all_data)}

\* C19: for every max_pages M >= 0 and server total T, one call of
\* fetch_all_capital_flow issues at most min(M, ceil(T / 100)) page requests
\* and returns records from at most M pages
C19_Original ==
    fetcher = "stock_flow"
        => /\ PageRequests <= FlowTotalPages(max_pages, total)
           /\ Cardinality(PagesReturned) <= max_pages

\* max_pages = 0, the server holds 250 records: page 1 was requested and
\* its records are returned
C19_Witness ==
    /\ fetcher = "stock_flow"
    /\ max_pages = 0
    /\ total = ExampleTotal
    /\ fpc = "done"
    /\ PageRequests = 1
    /\ PagesReturned = {1}

\* ---------------------------------------------------------------------
\* The Parsers: parse_quotes_data, parse_capital_flow_data,
\* parse_single_stock_kline
\* ---------------------------------------------------------------------

\* the longest list of raw records
MaxRecords == 2

\*   sector      SectorDataParser.parse_quotes_data
\*   stock_flow  StockCapitalFlowParser.parse_capital_flow_data
\*   kline       StockKlineParser.parse_single_stock_kline
Parsers == {"sector", "stock_flow", "kline"}

\* the values of a raw record and of a parsed row
\*   null  None
\*   int   a JSON integer
\*   dec   a JSON number with decimals, n in thousandths
\*   str   a string that is not a number
\*   num   a float with two decimals, n in hundredths
Null == [kind |-> "null", n |-> 0, s |-> ""]
Whole(n) == [kind |-> "int", n |-> n, s |-> ""]
Dec(t) == [kind |-> "dec", n |-> t, s |-> ""]
Str(x) == [kind |-> "str", n |-> 0, s |-> x]
Num(h) == [kind |-> "num", n |-> h, s |-> ""]

\* the placeholder the server sends for a missing value
Dash == Str("-")

\* the fields of the field mappings that are modelled, with their column
\* names: a name, an amount in yuan, the ratio of that amount
FIELD_MAPPING ==
    ("f14" :> "name") @@ ("f62" :> "main_net_inflow")
    @@ ("f184" :> "main_net_inflow_ratio")

\* the column names that contain the word for inflow, and for ratio
InflowNames == {"main_net_inflow", "main_net_inflow_ratio"}
RatioNames == {"main_net_inflow_ratio"}

\* mutant: the test for an inflow column comes first and does not look at
\* the word for ratio
ColumnKindInflowFirst(name) ==
    IF name \in InflowNames THEN "amount"
    ELSE IF name \in RatioNames THEN "ratio"
    ELSE "other"

\* the branch of the if/elif chain a column name takes
ColumnKind(name) ==
    IF name \in RatioNames THEN "ratio"
    ELSE IF name \in InflowNames /\ name \notin RatioNames THEN "amount"
    ELSE "other"

\* the integer nearest to n / d; up decides a tie, which round() settles by
\* the binary representation of the float
Nearest(n, d, up) ==
    LET q == n \div d
        r == n % d
    IN  IF 2 * r < d THEN q
        ELSE IF 2 * r > d THEN q + 1
        ELSE IF up THEN q + 1 ELSE q

\* float(raw_value) succeeds
IsNumber(v) == v.kind \in {"int", "dec"}

\* mutant: the amount is divided by 100,000
ToWanTooFar(v, up) ==
    IF v.kind = "int" THEN Num(Nearest(v.n, 1000, up))
    ELSE Num(Nearest(v.n, 1000000, up))

\* round(float(raw_value) / 10000, 2)
ToWan(v, up) ==
    IF v.kind = "int" THEN Num(Nearest(v.n, 100, up))
    ELSE Num(Nearest(v.n, 100000, up))

\* round(float(raw_value), 2)
Round2(v, up) ==
    IF v.kind = "int" THEN Num(v.n * 100)
    ELSE Num(Nearest(v.n, 10, up))

\* the body of the loop over the field mapping, for one field
ParsedValue(name, v, up) ==
    IF v = Null \/ v = Dash THEN Null
    ELSE IF ColumnKind(name) = "ratio"
         THEN (IF IsNumber(v) THEN Round2(v, up) ELSE Null)
    ELSE IF ColumnKind(name) = "amount"
         THEN (IF IsNumber(v) THEN ToWan(v, up) ELSE Null)
    ELSE v

\* the raw records of the quote and capital-flow lists
RawRecords ==
    [f14 : {Null, Str("TestSector")},
     f62 : {Null, Dash, Whole(50000000), Whole(123400000), Whole(150)},
     f184 : {Dec(3456), Dec(125), Whole(5)}]

\* len(FIELD_MAPPING) of StockKlineConfig
KlineFields == 11

\* the K-line strings, by their date and the number of their parts
KlineItems == [date : {1, 2}, nparts : {KlineFields - 1, KlineFields}]

\* the stock code parse_single_stock_kline is called with
KlineCode == "600000"

\* parsed_item of record i
ParsedItem(raw, i, up) ==
    [src |-> i,
     name |-> ParsedValue(FIELD_MAPPING["f14"], raw[i].f14, up),
     main_net_inflow |-> ParsedValue(FIELD_MAPPING["f62"], raw[i].f62, up),
     main_net_inflow_ratio |->
         ParsedValue(FIELD_MAPPING["f184"], raw[i].f184, up)]

ParsedItems(raw, up) == [i \in 1..Len(raw) |-> ParsedItem(raw, i, up)]

\* a sorts at or before b in descending order, NaN last
InflowAtOrBefore(a, b) ==
    IF b.main_net_inflow = Null THEN TRUE
    ELSE IF a.main_net_inflow = Null THEN FALSE
    ELSE a.main_net_inflow.n >= b.main_net_inflow.n

RECURSIVE SortByInflow(_)
\* df.sort_values('主力净流入', ascending=False); rows that tie keep their order
SortByInflow(rows) ==
    IF rows = <<>> THEN <<>>
    ELSE LET r == rows[Len(rows)]
             t == SortByInflow(SubSeq(rows, 1, Len(rows) - 1))
             k == Cardinality({i \in 1..Len(t) : InflowAtOrBefore(t[i], r)})
         IN  SubSeq(t, 1, k) \o <<r>> \o SubSeq(t, k + 1, Len(t))

RECURSIVE KlineRows(_, _)
\* the loop over klines: a string with fewer parts than the mapping has
\* fields is passed over
KlineRows(raw, i) ==
    IF i > Len(raw) THEN <<>>
    ELSE (IF raw[i].nparts >= KlineFields
          THEN <<[src |-> i, stock_code |-> KlineCode, date |-> raw[i].date]>>
          ELSE <<>>) \o KlineRows(raw, i + 1)

RECURSIVE SortByDate(_)
\* df.sort_values('日期'); rows that tie keep their order
SortByDate(rows) ==
    IF rows = <<>> THEN <<>>
    ELSE LET r == rows[Len(rows)]
             t == SortByDate(SubSeq(rows, 1, Len(rows) - 1))
             k == Cardinality({i \in 1..Len(t) : t[i].date <= r.date})
         IN  SubSeq(t, 1, k) \o <<r>> \o SubSeq(t, k + 1, Len(t))

\* the columns of pd.DataFrame(parsed_data_list)
ColumnsOf(pk, rows) ==
    IF rows = <<>> THEN {}
    ELSE IF pk = "kline" THEN {"stock_code", "date", "fetched_at"}
    ELSE {FIELD_MAPPING[f] : f \in DOMAIN FIELD_MAPPING}
            \cup (IF pk = "stock_flow" THEN {"fetched_at"} ELSE {})

\* the rows of the Table the parse method returns
RowsOf(pk, raw, up) ==
    IF raw = <<>> THEN <<>>
    ELSE IF pk = "sector" THEN ParsedItems(raw, up)
    ELSE IF pk = "stock_flow" THEN SortByInflow(ParsedItems(raw, up))
    ELSE SortByDate(KlineRows(raw, 1))

ParseTable(pk, raw, up) ==
    [rows |-> RowsOf(pk, raw, up), columns |-> ColumnsOf(pk, RowsOf(pk, raw, up))]

\* everything but the Parser call
NotParse == <<fvars, mvars, svars, pvars, dvars, cvars, tvars>>

InitParse ==
    /\ FetchAtRest
    /\ MonitorAtRest
    /\ monitor = "sector"
    /\ ScrapeAtRest
    /\ MapAtRest
    /\ SaveAtRest
    /\ ValidateAtRest
    /\ parser \in Parsers
    /\ raw_list \in (IF parser = "kline" THEN BoundedSeq(KlineItems, MaxRecords)
                     ELSE BoundedSeq(RawRecords, MaxRecords))
    /\ table = NoTable
    /\ rpc = "start"
    /\ KlineAtRest
    /\ SchedAtRest
    /\ CacheAtRest

\* the parse method, from its call to its return
Parse(up) ==
    /\ rpc = "start"
    /\ table' = ParseTable(parser, raw_list, up)
    /\ rpc' = "done"
    /\ UNCHANGED <<parser, raw_list>>
    /\ UNCHANGED NotParse

NextParse == \E up \in BOOLEAN : Parse(up)

SpecParse == InitParse /\ [][NextParse]_vars

InflowExampleRows ==
    {i \in 1..Len(table.rows) :
        raw_list[table.rows[i].src].f62 = Whole(123400000)}

\* C22 (as stated): a raw net inflow of 123400000 parses to 1234.0
C22_Original ==
    (rpc = "done" /\ parser \in {"sector", "stock_flow"})
        => \A i \in InflowExampleRows :
              table.rows[i].main_net_inflow = Num(123400)

\* C22: a raw net inflow of 123400000 is divided by 10,000 and rounded to 2
\* decimals, which is 12340.0
C22_InflowExample ==
    (rpc = "done" /\ parser \in {"sector", "stock_flow"})
        => \A i \in InflowExampleRows :
              table.rows[i].main_net_inflow = Num(1234000)

\* parse_quotes_data has parsed a record with f62 = 123400000
C22_Witness ==
    /\ rpc = "done"
    /\ parser = "sector"
    /\ InflowExampleRows # {}

\* C23 (as stated): the Parser returns one row for each raw record, in the
\* order of the input, and for an empty list an empty Table without columns
C23_Original ==
    rpc = "done"
        => /\ Len(table.rows) = Len(raw_list)
           /\ \A i \in 1..Len(table.rows) : table.rows[i].src = i
           /\ raw_list = <<>> => table = NoTable

\* parse_capital_flow_data has returned the second record before the first
C23_Witness ==
    /\ rpc = "done"
    /\ parser = "stock_flow"
    /\ Len(table.rows) = 2
    /\ table.rows[1].src = 2
    /\ table.rows[2].src = 1

----------------------------------------------------------------------------
\* StockKlineScraper.scrape_multiple_stocks
\* (stock_kline_scraper.py: StockKlineFetcher._get_stock_code_with_market,
\*  fetch_multiple_stocks_kline, StockKlineParser.parse_multiple_stocks_kline)

\* how many stock codes a call is given at most
MaxStocks == 2

\* stock codes are strings, modelled as sequences of characters
BareShanghai == <<"6", "0", "0", "0", "0", "0">>
BareShenzhen == <<"0", "0", "0", "0", "0", "1">>
BareChiNext == <<"3", "0", "0", "0", "0", "1">>

StockCodes ==
    {BareShanghai, BareShenzhen, BareChiNext,
     <<"s", "h">> \o BareShanghai, <<"s", "z">> \o BareShenzhen,
     <<"S", "H">> \o BareShanghai,
     <<"s", "h">> \o BareShenzhen, <<"s", "z">> \o BareShanghai,
     <<"1", ".">> \o BareShanghai}

\* str.lower() on the characters the codes are written with
LowerChar(c) == IF c = "S" THEN "s" ELSE IF c = "H" THEN "h"
                ELSE IF c = "Z" THEN "z" ELSE c

LowerCode(code) == [i \in 1..Len(code) |-> LowerChar(code[i])]

\* re.sub(r'^(sh|sz|bj)', '', code)
StripMarketLetters(code) ==
    IF Len(code) >= 2
       /\ SubSeq(code, 1, 2) \in {<<"s", "h">>, <<"s", "z">>, <<"b", "j">>}
    THEN SubSeq(code, 3, Len(code))
    ELSE code

StartsWith(code, c) == Len(code) >= 1 /\ code[1] = c

\* StockKlineFetcher._get_stock_code_with_market
get_stock_code_with_market(stock_code) ==
    IF "." \in Range(stock_code) THEN stock_code
    ELSE LET clean_code == StripMarketLetters(LowerCode(stock_code))
         IN  IF StartsWith(clean_code, "6") THEN <<"1", ".">> \o clean_code
             ELSE IF StartsWith(clean_code, "0") \/ StartsWith(clean_code, "3")
                  THEN <<"0", ".">> \o clean_code
             ELSE IF StartsWith(clean_code, "8") \/ StartsWith(clean_code, "4")
                  THEN <<"0", ".">> \o clean_code
             ELSE <<"0", ".">> \o clean_code

\* what fetch_kline_data returns: None for a failed request, else the JSON
FetchFailed == [kind |-> "None", klines |-> <<>>]
NoKlineData == [kind |-> "json", klines |-> <<>>]
KlineJson(klines) == [kind |-> "json", klines |-> klines]

KlineResponses ==
    {FetchFailed, NoKlineData,
     KlineJson(<<[date |-> 2, nparts |-> KlineFields],
                 [date |-> 1, nparts |-> KlineFields]>>),
     KlineJson(<<[date |-> 1, nparts |-> KlineFields - 1]>>)}

\* d[k] = v on a dictionary kept in insertion order
DictSet(d, k, v) ==
    IF \E i \in 1..Len(d) : d[i].key = k
    THEN [i \in 1..Len(d) |-> IF d[i].key = k THEN [key |-> k, value |-> v]
                              ELSE d[i]]
    ELSE Append(d, [key |-> k, value |-> v])

RECURSIVE ParsedData(_, _, _)
\* the loop of parse_single_stock_kline over klines
ParsedData(klines, i, stock_code) ==
    IF i > Len(klines) THEN <<>>
    ELSE (IF klines[i].nparts >= KlineFields
          THEN <<[src |-> i, stock_code |-> stock_code,
                  date |-> klines[i].date]>>
          ELSE <<>>) \o ParsedData(klines, i + 1, stock_code)

\* StockKlineParser.parse_single_stock_kline
parse_single_stock_kline(raw_data, stock_code) ==
    IF raw_data.klines = <<>> THEN NoTable
    ELSE LET rows == SortByDate(ParsedData(raw_data.klines, 1, stock_code))
         IN  [rows |-> rows,
              columns |-> IF rows = <<>> THEN {}
                          ELSE {"stock_code", "date", "fetch_time"}]

\* the failed fetches get no entry
parse_fetched_stocks_kline(raw) ==
    LET kept == SelectSeq(raw, LAMBDA e : e.value # FetchFailed)
    IN  [i \in 1..Len(kept) |->
            [key |-> kept[i].key,
             value |-> parse_single_stock_kline(kept[i].value, kept[i].key)]]

\* StockKlineParser.parse_multiple_stocks_kline
parse_multiple_stocks_kline(raw) ==
    [i \in 1..Len(raw) |->
        [key |-> raw[i].key,
         value |-> IF raw[i].value # FetchFailed
                   THEN parse_single_stock_kline(raw[i].value, raw[i].key)
                   ELSE NoTable]]

\* everything but the batch K-line call
NotKline == <<fvars, mvars, svars, pvars, dvars, cvars, rvars, uvars>>

InitKline ==
    /\ FetchAtRest
    /\ MonitorAtRest
    /\ monitor = "sector"
    /\ ScrapeAtRest
    /\ MapAtRest
    /\ SaveAtRest
    /\ ValidateAtRest
    /\ ParseAtRest
    /\ stock_codes \in BoundedSeq(StockCodes, MaxStocks)
    /\ kline_resp \in [Range(stock_codes) -> KlineResponses]
    /\ futures = {}
    /\ raw_data_dict = <<>>
    /\ secids = {}
    /\ parsed_results = <<>>
    /\ kpc = "start"
    /\ SchedAtRest
    /\ CacheAtRest

\* fetch_multiple_stocks_kline up to the submission of the tasks; an empty
\* list returns {} and scrape_multiple_stocks returns {} in its turn
SubmitKlines ==
    /\ kpc = "start"
    /\ IF stock_codes = <<>>
       THEN /\ kpc' = "done"
            /\ UNCHANGED futures
       ELSE /\ kpc' = "collect"
            /\ futures' = DOMAIN stock_codes
    /\ UNCHANGED <<stock_codes, kline_resp, raw_data_dict, secids,
                   parsed_results>>
    /\ UNCHANGED NotKline

\* one task runs fetch_kline_data and as_completed yields its future
KlineCompleted(i) ==
    /\ kpc = "collect"
    /\ i \in futures
    /\ futures' = futures \ {i}
    /\ secids' = secids \union
                   {[stock_code |-> stock_codes[i],
                     secid |-> get_stock_code_with_market(stock_codes[i])]}
    /\ raw_data_dict' =
           DictSet(raw_data_dict, stock_codes[i], kline_resp[stock_codes[i]])
    /\ UNCHANGED <<stock_codes, kline_resp, parsed_results, kpc>>
    /\ UNCHANGED NotKline

\* all futures are in: the results are parsed and returned
ParseKlines ==
    /\ kpc = "collect"
    /\ futures = {}
    /\ parsed_results' = parse_multiple_stocks_kline(raw_data_dict)
    /\ kpc' = "done"
    /\ UNCHANGED <<stock_codes, kline_resp, futures, raw_data_dict, secids>>
    /\ UNCHANGED NotKline

NextKline ==
    \/ SubmitKlines
    \/ \E i \in 1..MaxStocks : KlineCompleted(i)
    \/ ParseKlines

SpecKline == InitKline /\ [][NextKline]_vars

DistinctCodes == \A i, j \in DOMAIN stock_codes :
                     stock_codes[i] = stock_codes[j] => i = j

\* C24: called with distinct stock codes, scrape_multiple_stocks returns a
\* dictionary with exactly one entry for each requested code, the entry of a
\* failed fetch being an empty table, and every row of an entry carries the
\* stock code of that entry, whatever the order in which the fetches complete
C24_OneEntryPerCode ==
    (kpc = "done" /\ DistinctCodes) =>
        /\ Len(parsed_results) = Len(stock_codes)
        /\ \A i \in DOMAIN stock_codes :
               Cardinality({j \in DOMAIN parsed_results :
                               parsed_results[j].key = stock_codes[i]}) = 1
        /\ \A j \in DOMAIN parsed_results :
               /\ parsed_results[j].key \in Range(stock_codes)
               /\ kline_resp[parsed_results[j].key] = FetchFailed =>
                      parsed_results[j].value = NoTable
               /\ \A r \in DOMAIN parsed_results[j].value.rows :
                      parsed_results[j].value.rows[r].stock_code =
                          parsed_results[j].key

\* two distinct codes, the second fetch completed first and failed, the first
\* returned rows
C24_Witness ==
    /\ kpc = "done"
    /\ DistinctCodes
    /\ Len(stock_codes) = 2
    /\ Len(parsed_results) = 2
    /\ parsed_results[1].key = stock_codes[2]
    /\ kline_resp[stock_codes[2]] = FetchFailed
    /\ parsed_results[2].value.rows # <<>>

\* the market a two-letter prefix names
PrefixMarket(code) ==
    IF SubSeq(code, 1, 2) = <<"s", "h">> THEN "1" ELSE "0"

HasPrefix(code) ==
    Len(code) >= 2 /\ SubSeq(code, 1, 2) \in {<<"s", "h">>, <<"s", "z">>}

\* C25: _get_stock_code_with_market returns '<market>.<code>': a bare code
\* that starts with 6 is market 1 and any other bare code market 0, a code
\* with the sh or sz prefix is returned without the prefix under the market
\* the prefix names, and a code that contains '.' is returned unchanged
C25_Original ==
    \A e \in secids :
        LET code == e.stock_code
        IN  IF "." \in Range(code) THEN e.secid = code
            ELSE IF HasPrefix(LowerCode(code))
                 THEN e.secid = <<PrefixMarket(LowerCode(code)), ".">>
                                  \o SubSeq(LowerCode(code), 3, Len(code))
            ELSE e.secid = <<IF code[1] = "6" THEN "1" ELSE "0", ".">> \o code

\* a request was sent for a code whose prefix and first digit disagree
C25_Witness ==
    \E e \in secids : /\ e.stock_code = <<"s", "h">> \o BareShenzhen
                      /\ e.secid = <<"0", ".">> \o BareShenzhen

----------------------------------------------------------------------------
\* start_scheduled_scraping and stop of the scrapers
\* (sector_scraper.py, concept_sector_scraper.py, stock_capital_flow_scraper.py)

\* the longest interval a loop is started with, in seconds
MaxInterval == 3

ScheduledScrapers == {"sector", "concept", "stock_flow"}

\* the loop is between its fetch and its next test of the flag
WaitPositions == {"for", "sleep_1", "sleep_interval"}

\* everything but the scheduled loop
NotSched ==
    <<fvars, mvars, svars, pvars, dvars, cvars, rvars, kvars, hvars>>

InitSched ==
    /\ FetchAtRest
    /\ MonitorAtRest
    /\ monitor = "sector"
    /\ ScrapeAtRest
    /\ MapAtRest
    /\ SaveAtRest
    /\ ValidateAtRest
    /\ ParseAtRest
    /\ KlineAtRest
    /\ sched \in ScheduledScrapers
    /\ interval_seconds \in 1..MaxInterval
    /\ sched_running = FALSE
    /\ lpc = "idle"
    /\ remaining = 0
    /\ stop_at = "none"
    /\ since_stop = 0
    /\ CacheAtRest

\* start_scheduled_scraping sets the flag and enters the loop
StartScheduled ==
    /\ lpc = "idle"
    /\ sched_running' = TRUE
    /\ lpc' = "while"
    /\ UNCHANGED <<sched, interval_seconds, remaining, stop_at, since_stop>>
    /\ UNCHANGED NotSched

\* while self.is_running: the body starts with run_once
WhileTest ==
    /\ lpc = "while"
    /\ lpc' = IF sched_running THEN "run_once" ELSE "exited"
    /\ UNCHANGED <<sched, interval_seconds, sched_running, remaining, stop_at,
                   since_stop>>
    /\ UNCHANGED NotSched

\* run_once returns and the wait begins: the sector scrapers enter the loop
\* over the seconds, the stock-flow scraper calls time.sleep(interval_seconds)
RunOnceReturns ==
    /\ lpc = "run_once"
    /\ remaining' = interval_seconds
    /\ lpc' = IF sched = "stock_flow" THEN "sleep_interval" ELSE "for"
    /\ UNCHANGED <<sched, interval_seconds, sched_running, stop_at, since_stop>>
    /\ UNCHANGED NotSched

\* for _ in range(interval_seconds): if not self.is_running: break
ForTest ==
    /\ lpc = "for"
    /\ lpc' = IF remaining = 0 \/ ~sched_running THEN "while" ELSE "sleep_1"
    /\ UNCHANGED <<sched, interval_seconds, sched_running, remaining, stop_at,
                   since_stop>>
    /\ UNCHANGED NotSched

\* time.sleep(1) returns
SleepOne ==
    /\ lpc = "sleep_1"
    /\ remaining' = remaining - 1
    /\ since_stop' = since_stop + (IF sched_running THEN 0 ELSE 1)
    /\ lpc' = "for"
    /\ UNCHANGED <<sched, interval_seconds, sched_running, stop_at>>
    /\ UNCHANGED NotSched

\* one more second of time.sleep(interval_seconds) goes by; the call returns
\* when the last one has
SleepInterval ==
    /\ lpc = "sleep_interval"
    /\ remaining' = remaining - 1
    /\ since_stop' = since_stop + (IF sched_running THEN 0 ELSE 1)
    /\ lpc' = IF remaining = 1 THEN "while" ELSE "sleep_interval"
    /\ UNCHANGED <<sched, interval_seconds, sched_running, stop_at>>
    /\ UNCHANGED NotSched

\* stop(), called from another thread while the loop runs
StopScheduled ==
    /\ lpc \notin {"idle", "exited"}
    /\ sched_running
    /\ sched_running' = FALSE
    /\ stop_at' = lpc
    /\ UNCHANGED <<sched, interval_seconds, lpc, remaining, since_stop>>
    /\ UNCHANGED NotSched

NextSched ==
    \/ StartScheduled
    \/ WhileTest
    \/ RunOnceReturns
    \/ ForTest
    \/ SleepOne
    \/ SleepInterval
    \/ StopScheduled

SpecSched == InitSched /\ [][NextSched]_vars

\* C26: in the scheduled loop of every scraper the flag is tested every second
\* of the wait: once stop() has cleared it during a wait, the loop sleeps no
\* more than one further second before it exits, and it starts no further fetch
C26_Original ==
    stop_at \in WaitPositions =>
        /\ since_stop <= 1
        /\ lpc # "run_once"

\* the stock-flow loop has slept two seconds since stop() cleared the flag
C26_Witness ==
    /\ sched = "stock_flow"
    /\ stop_at = "sleep_interval"
    /\ since_stop = 2

----------------------------------------------------------------------------
\* scrape_all_data together with the parallel fetch of the quote pages
\* (sector_scraper.py: SectorDataFetcher.fetch_all_quotes,
\*  SectorScraper.scrape_all_data; concept_sector_scraper.py:
\*  ConceptSectorScraper.scrape_all_data)

\* the fixed responses of the quote pages: a failed request or one record
OrderResponses ==
    {[kind |-> "fail", diff |-> <<>>]}
        \cup {[kind |-> "ok", diff |-> <<c>>] : c \in Codes}

OrderTotals == {0, PageSize, MaxPages * PageSize}

\* the fixed responses of the capital-flow fetches: none, or A and C
OrderFlowLists == {<<>>, <<"A", "C">>}

\* parse_quotes_data on the fetched list: one row for each record; q stands
\* for the quote columns of the record, identified by the page it came with
ParseFetched(data) ==
    [i \in 1..Len(data) |->
        [code |-> data[i].code, q |-> data[i].page,
         flow |-> [p \in Periods |-> <<>>]]]

InitOrder ==
    /\ MonitorAtRest
    /\ monitor = "sector"
    /\ MapAtRest
    /\ SaveAtRest
    /\ ValidateAtRest
    /\ ParseAtRest
    /\ KlineAtRest
    /\ SchedAtRest
    /\ CacheAtRest
    /\ fetcher = "quotes"
    /\ max_pages = 0
    /\ resp \in [Pages -> OrderResponses]
    /\ total \in OrderTotals
    /\ fpc = "start"
    /\ submitted = {}
    /\ inflight = {}
    /\ finished = {}
    /\ requests = [p \in Pages |-> 0]
    /\ all_data = <<>>
    /\ next_future = 1
    /\ raised = FALSE
    /\ scraper \in Scrapers
    /\ calls = NoCalls
    /\ spc = "start"
    /\ df_merged = <<>>
    /\ columns = {}
    /\ last_merge = NoMerge
    /\ scrape_result = <<>>

\* step 1 of scrape_all_data once the fetch-all call has returned: the list
\* is parsed in the order the pages were consumed
ScrapeFetched ==
    /\ fpc = "done"
    /\ spc = "start"
    /\ calls' = [calls EXCEPT !.quotes = @ + 1,
                              !.rows = Len(all_data),
                              !.flow = FlowsSubmitted(scraper,
                                                      ParseFetched(all_data))]
    /\ IF all_data = <<>>
       THEN /\ spc' = "done"
            /\ UNCHANGED df_merged
       ELSE /\ df_merged' = ParseFetched(all_data)
            /\ spc' = (IF scraper = "concept" THEN PeriodOrder[1] ELSE "return")
    /\ UNCHANGED <<scraper, columns, last_merge, scrape_result>>
    /\ UNCHANGED fvars
    /\ UNCHANGED mvars
    /\ UNCHANGED xvars

NextOrder ==
    \/ FetchFirstPage
    \/ \E p \in Pages : IssueRequest(p)
    \/ \E p \in Pages : CompleteRequest(p)
    \/ \E p \in Pages : ConsumeCompleted(p)
    \/ FetchReturn
    \/ ScrapeFetched
    \/ \E raw \in OrderFlowLists : MergeFlow(raw)
    \/ ScrapeReturn

SpecOrder == InitOrder /\ [][NextOrder]_vars

\* rows i and j of the returned table stand as they do when the pages
\* complete in page order: by the sort column, and page by page where they tie
InPageOrder(t, i, j) ==
    \/ Pct(t[i].code) > Pct(t[j].code)
    \/ Pct(t[i].code) = Pct(t[j].code) /\ t[i].q <= t[j].q

\* C27: for fixed page and auxiliary responses the table scrape_all_data
\* returns, its rows and their final order, is the same for every order in
\* which the parallel requests complete: it is the table of the completion
\* in page order
C27_Original ==
    spc = "done" =>
        \A i, j \in DOMAIN scrape_result :
            i < j => InPageOrder(scrape_result, i, j)

\* pages 2 and 3 hold sectors of equal change and page 3 was consumed first
C27_Witness ==
    /\ spc = "done"
    /\ scraper = "sector"
    /\ resp[2].diff = <<"A">>
    /\ resp[3].diff = <<"C">>
    /\ \E i, j \in DOMAIN scrape_result :
           /\ i < j
           /\ scrape_result[i].q = 3
           /\ scrape_result[j].q = 2

----------------------------------------------------------------------------
\* The first page of the fetch-all calls
\* (sector_scraper.py: SectorDataFetcher.fetch_all_quotes and
\*  fetch_all_constituents; stock_capital_flow_scraper.py:
\*  StockCapitalFlowFetcher.fetch_all_capital_flow)

FetchAllCalls == {"quotes", "stock_flow", "constituents"}

\* the totals a first page reports: none, more than one page, every page
FirstPageTotals == {0, PageSize + 1, MaxPages * PageSize}

InitFirstPage ==
    /\ MonitorAtRest
    /\ monitor = "sector"
    /\ ScrapeAtRest
    /\ MapAtRest
    /\ SaveAtRest
    /\ ValidateAtRest
    /\ ParseAtRest
    /\ KlineAtRest
    /\ SchedAtRest
    /\ CacheAtRest
    /\ fetcher \in FetchAllCalls
    /\ max_pages \in (IF fetcher = "stock_flow" THEN {1, MaxPages} ELSE {0})
    /\ resp \in [Pages -> Responses]
    /\ total \in FirstPageTotals
    /\ fpc = "start"
    /\ submitted = {}
    /\ inflight = {}
    /\ finished = {}
    /\ requests = [p \in Pages |-> 0]
    /\ all_data = <<>>
    /\ next_future = 1
    /\ raised = FALSE

\* fetch_all_constituents up to the creation of the pool: the records of the
\* first page are kept before total is looked at
ConstituentsFirstPage ==
    /\ fetcher = "constituents"
    /\ fpc = "start"
    /\ requests' = [requests EXCEPT ![1] = @ + 1]
    /\ IF ~FirstPageUsable(resp[1])
       THEN /\ fpc' = "done"
            /\ UNCHANGED <<all_data, submitted>>
       ELSE /\ all_data' = ExtendWith(all_data, 1)
            /\ IF total = 0 \/ TotalPages(total) <= 1
               THEN /\ fpc' = "done"
                    /\ UNCHANGED submitted
               ELSE /\ fpc' = "collect"
                    /\ submitted' = RemainingPages(total)
    /\ UNCHANGED <<fetcher, max_pages, resp, total, inflight, finished,
                   next_future, raised>>
    /\ UNCHANGED mvars
    /\ UNCHANGED svars
    /\ UNCHANGED xvars

NextFirstPage ==
    \/ FetchFirstPage
    \/ FlowFirstPage
    \/ ConstituentsFirstPage
    \/ \E p \in Pages : IssueRequest(p)
    \/ \E p \in Pages : CompleteRequest(p)
    \/ \E p \in Pages : ConsumeCompleted(p)
    \/ FetchReturn

SpecFirstPage == InitFirstPage /\ [][NextFirstPage]_vars

\* the first-page request was made and only it
OnlyFirstPageRequested ==
    /\ requests[1] = 1
    /\ \A p \in Pages \ {1} : requests[p] = 0
    /\ submitted = {} /\ inflight = {} /\ finished = {}

\* C28: when the first-page request of a fetch-all call fails or its response
\* carries no data, the call makes no further page request and returns an
\* empty list; when the first page reports total = 0, it makes no further
\* page request and returns the records of the first page
C28_FirstPageDecides ==
    requests[1] > 0 =>
        /\ resp[1].kind \in {"fail", "null"} =>
               /\ fpc = "done"
               /\ all_data = <<>>
               /\ OnlyFirstPageRequested
        /\ (resp[1].kind \notin {"fail", "null"} /\ total = 0) =>
               /\ fpc = "done"
               /\ all_data = [i \in 1..Len(resp[1].diff) |->
                                 [page |-> 1, code |-> resp[1].diff[i]]]
               /\ OnlyFirstPageRequested

\* fetch_all_constituents has returned the record of a first page that
\* reports total = 0, with a record waiting on page 2
C28_Witness ==
    /\ fetcher = "constituents"
    /\ requests[1] = 1
    /\ total = 0
    /\ resp[1].diff # <<>>
    /\ resp[2].diff # <<>>
    /\ all_data = <<[page |-> 1, code |-> resp[1].diff[1]]>>
    /\ fpc = "done"

----------------------------------------------------------------------------
\* save_data of the sector scrapers as one unit
\* (sector_scraper.py: SectorScraper.save_data; concept_sector_scraper.py:
\*  ConceptSectorScraper.save_data)

\* the classes whose save_data writes a timestamped and a latest file
LatestSavers == {"sector", "concept"}

\* C29: save_data is all-or-nothing: it writes the timestamped file and the
\* latest file and returns the timestamped path, or it returns the empty
\* string and leaves the output directory as it was before the call
C29_Original ==
    [][\A df \in SaveTables :
          (saver \in LatestSavers /\ SaveDataOf(df))
              => \/ /\ save_call'.result.value = "path"
                    /\ files'[save_call'.result.name] = FileOf(df)
                    /\ files'[Latest] = FileOf(df)
                 \/ /\ save_call'.result = EmptyPath
                    /\ files' = files]_vars

\* save_data has returned the empty string, and the timestamped file of the
\* call holds the table while the latest file was not written
C29_Witness ==
    /\ saver \in LatestSavers
    /\ save_call.called
    /\ save_call.failed
    /\ save_call.result = EmptyPath
    /\ save_call.df # <<>>
    /\ files[Timestamped(clock)] = FileOf(save_call.df)
    /\ files[Latest] # FileOf(save_call.df)

----------------------------------------------------------------------------
\* StockListScraper.get_all_stocks and its cache file
\* (stock_list_scraper.py: get_all_stocks, _load_cache, _save_cache)

\* self.cache_duration = timedelta(hours=6)
CacheHours == 6

\* the hours that pass in one step of the clock
HoursPerTick == 3

\* the steps the clock makes at most
MaxTicks == 3

\* the tables a fetch parses to, as the stock codes of their rows
StockTables == {<<"000001", "600000">>, <<"600000">>}

\* what fetch_stock_list and parse_stock_list yield: no raw data, an empty
\* table, or a table
FetchOutcomes ==
    {[kind |-> k, df |-> <<>>] : k \in {"failed", "empty"}}
        \cup {[kind |-> "table", df |-> t] : t \in StockTables}

\* what df.to_csv(self.cache_file) does: it writes the file, or raises before
\* the file is opened, or raises after the file was truncated
CacheWrites == {"written", "not_opened", "truncated"}

\* the market strings of the callers: two the table knows, one it does not
MarketArgs == {"all", "sh_main", Invalid}

CacheOf(df, t) == [exists |-> TRUE, mtime |-> t, text |-> df, readable |-> TRUE]

Truncated(t) == [exists |-> TRUE, mtime |-> t, text |-> <<>>,
                 readable |-> FALSE]

\* a column of digit strings is read back as integers
AsInteger(code) == IF code = "000001" THEN "1" ELSE code

\* pd.read_csv(self.cache_file, encoding='utf-8-sig')
read_csv(text) == [i \in 1..Len(text) |-> AsInteger(text[i])]

Loaded(ok, df) == [ok |-> ok, df |-> df]

\* mutant: the age of the file is not looked at
load_cache_of_any_age(file, t) ==
    IF ~file.exists THEN Loaded(FALSE, <<>>)
    ELSE IF ~file.readable THEN Loaded(FALSE, <<>>)
    ELSE Loaded(TRUE, read_csv(file.text))

\* StockListScraper._load_cache at time t: None for a missing file, a file
\* older than cache_duration, and a file read_csv raises on
load_cache(file, t) ==
    IF ~file.exists THEN Loaded(FALSE, <<>>)
    ELSE IF t - file.mtime > CacheHours THEN Loaded(FALSE, <<>>)
    ELSE IF ~file.readable THEN Loaded(FALSE, <<>>)
    ELSE Loaded(TRUE, read_csv(file.text))

\* StockListScraper._save_cache at time t: the exception of a failed write
\* is caught
save_cache(file, df, t, write) ==
    CASE write = "written" -> CacheOf(df, t)
      [] write = "not_opened" -> file
      [] write = "truncated" -> Truncated(t)

\* everything but the stock list call
NotCache == <<fvars, mvars, svars, pvars, dvars, cvars, rvars, kvars, lvars>>

InitCache ==
    /\ FetchAtRest
    /\ MonitorAtRest
    /\ monitor = "sector"
    /\ ScrapeAtRest
    /\ MapAtRest
    /\ SaveAtRest
    /\ ValidateAtRest
    /\ ParseAtRest
    /\ KlineAtRest
    /\ SchedAtRest
    /\ cache_file = NoCache
    /\ now = 0
    /\ stock_call = NoStockCall

\* get_all_stocks(market, use_cache, save_to_file) from its call to its
\* return: fetched is what the fetch and the parse yield if they are reached,
\* save_fails whether save_stock_list raises, write what _save_cache's to_csv
\* does
GetAllStocks(m, use, save, fetched, save_fails, write) ==
    LET market == GetOr(market_map, Lower(m), "ALL").value
        cached == load_cache(cache_file, now)
        call == [called |-> TRUE, market_arg |-> m, market |-> market,
                 use_cache |-> use, at |-> now, before |-> cache_file,
                 fetches |-> 1, fetched |-> fetched.kind, df |-> fetched.df,
                 from_cache |-> FALSE, result |-> <<>>, raised |-> FALSE]
    IN  /\ save_fails => save
        /\ IF use /\ market = "ALL" /\ cached.ok
           THEN /\ stock_call' = [call EXCEPT !.fetches = 0,
                                              !.fetched = "none",
                                              !.df = <<>>,
                                              !.from_cache = TRUE,
                                              !.result = cached.df]
                /\ UNCHANGED cache_file
           ELSE IF fetched.kind \in {"failed", "empty"}
           THEN /\ stock_call' = call
                /\ UNCHANGED cache_file
           ELSE IF save_fails
           THEN /\ stock_call' = [call EXCEPT !.raised = TRUE]
                /\ UNCHANGED cache_file
           ELSE /\ stock_call' = [call EXCEPT !.result = fetched.df]
                /\ cache_file' =
                       IF market = "ALL"
                       THEN save_cache(cache_file, fetched.df, now, write)
                       ELSE cache_file
        /\ UNCHANGED now
        /\ UNCHANGED NotCache

\* time passes
TickHours ==
    /\ now < MaxTicks * HoursPerTick
    /\ now' = now + HoursPerTick
    /\ UNCHANGED <<cache_file, stock_call>>
    /\ UNCHANGED NotCache

NextCache ==
    \/ \E m \in MarketArgs : \E use, save, save_fails \in BOOLEAN :
           \E fetched \in FetchOutcomes : \E write \in CacheWrites :
               GetAllStocks(m, use, save, fetched, save_fails, write)
    \/ TickHours

SpecCache == InitCache /\ [][NextCache]_vars

\* the cache file the last call found can be served: it exists and is at
\* most six hours old
CacheFresh ==
    /\ stock_call.before.exists
    /\ stock_call.at - stock_call.before.mtime <= 6

\* C30: get_all_stocks returns cached data only when use_cache is set, the
\* market is ALL and the cache file exists and is at most 6 hours old, and
\* then (the file being readable) it does; in every other case it fetches;
\* the cache file is rewritten only after a fetch for ALL that produced a
\* non-empty table, and a failed or empty fetch leaves it unchanged
C30_CacheRules ==
    stock_call.called =>
        /\ stock_call.from_cache =>
               /\ stock_call.use_cache
               /\ stock_call.market = "ALL"
               /\ CacheFresh
               /\ stock_call.result = read_csv(stock_call.before.text)
        /\ (stock_call.use_cache /\ stock_call.market = "ALL" /\ CacheFresh
              /\ stock_call.before.readable) => stock_call.from_cache
        /\ stock_call.fetches = (IF stock_call.from_cache THEN 0 ELSE 1)
        /\ cache_file # stock_call.before =>
               /\ stock_call.fetches = 1
               /\ stock_call.market = "ALL"
               /\ stock_call.fetched = "table"
               /\ stock_call.df # <<>>
        /\ (stock_call.fetches = 1
              /\ stock_call.fetched \in {"failed", "empty"}) =>
               /\ cache_file = stock_call.before
               /\ stock_call.result = <<>>

\* a call was served from a cache file that was exactly six hours old
C30_Witness ==
    /\ stock_call.called
    /\ stock_call.from_cache
    /\ stock_call.at - stock_call.before.mtime = CacheHours
    /\ stock_call.result # <<>>

============================================================================
